---- MODULE Spec2Model ----
(***************************************************************************)
(* Model of remote-admin.js: the device session registry, the device       *)
(* connection handler, the admin connection handler and the admin command  *)
(* processor.                                                              *)
(*                                                                         *)
(* Text is modelled as a sequence of one-character strings, so that the    *)
(* regular expressions, parseInt, trim, split, indexOf and the template    *)
(* strings of the source are computed character by character.  The         *)
(* timestamp that logToAdmins puts in front of every line is left out.     *)
(***************************************************************************)
EXTENDS Integers, Sequences, FiniteSets, TLC

\* ---------------------------------------------------------------- bounds
\* number of device connections accepted in one run
MaxDev == 2
\* number of admin connections accepted in one run
MaxAdmin == 2
\* numerals whose value reaches BigId are all read as BigId (no session id
\* gets that far: the counter stops at 1000 + MaxDev)
BigId == 100000

\* ------------------------------------------------------- program constants
\* state.sessionIdCounter starting value
SessionIdStart == 1000

NA == <<"N","A">>
\* the value of a property the session object literal does not define
UNDEFINED == <<"undefined">>
\* NaN, the result of parseInt on a string with no leading digit
NaN == -1

SYS_LINE == <<"S","Y","S"," ","\n">>
SYS_DBG_LINE == <<"S","Y","S"," ","D","B","G"," ","\n">>
NOT_VALID_MSG == <<"N","o","t"," ","V","a","l","i","d","\n">>
IDLE_TIMEOUT_MSG == <<"I","d","l","e"," ","T","i","m","e","o","u","t","\n">>
DROP_MSG == <<"C","o","n","n","e","c","t","i","o","n"," ","d","r","o","p","p","e","d"," ","b","y"," ","a","d","m","i","n",".","\n">>

\* ------------------------------------------------------------ characters
Digits == <<"0","1","2","3","4","5","6","7","8","9">>
UpperHex == <<"A","B","C","D","E","F">>
LowerHex == <<"a","b","c","d","e","f">>
UpperAlpha == <<"A","B","C","D","E","F","G","H","I","J","K","L","M","N","O","P","Q","R","S","T","U","V","W","X","Y","Z">>
LowerAlpha == <<"a","b","c","d","e","f","g","h","i","j","k","l","m","n","o","p","q","r","s","t","u","v","w","x","y","z">>

Range(f) == {f[i] : i \in DOMAIN f}
IndexOfChar(c, tbl) == CHOOSE i \in DOMAIN tbl : tbl[i] = c

IsDigit(c) == c \in Range(Digits)
\* [A-Fa-f]
IsHexLetter(c) == c \in Range(UpperHex) \cup Range(LowerHex)
\* [0-9A-Fa-f]
IsHex(c) == IsDigit(c) \/ IsHexLetter(c)
\* \s
IsSpace(c) == c \in {" ", "\t", "\n", "\r"}
\* the i flag: letters compare by their lower-case form
ToLower(c) == IF c \in Range(UpperAlpha) THEN LowerAlpha[IndexOfChar(c, UpperAlpha)] ELSE c

\* value of one digit in the given radix, or -1 when it is not a digit of it
DigitValue(c, radix) ==
    IF IsDigit(c) THEN IndexOfChar(c, Digits) - 1
    ELSE IF radix = 16 /\ c \in Range(UpperHex) THEN 9 + IndexOfChar(c, UpperHex)
    ELSE IF radix = 16 /\ c \in Range(LowerHex) THEN 9 + IndexOfChar(c, LowerHex)
    ELSE -1

\* ------------------------------------------------------------ string ops
\* s.substring(from - 1) (1-based from)
From(s, from) == SubSeq(s, from, Len(s))

\* s.startsWith(p) at 1-based position pos
HasAt(s, pos, p) ==
    /\ pos >= 1
    /\ pos + Len(p) - 1 <= Len(s)
    /\ \A i \in 1..Len(p) : s[pos + i - 1] = p[i]

\* a keyword test that is case-sensitive
HasAtI_CaseSensitive(s, pos, p) == HasAt(s, pos, p)

\* the same, ignoring letter case (regular expression flag i)
HasAtI(s, pos, p) ==
    /\ pos >= 1
    /\ pos + Len(p) - 1 <= Len(s)
    /\ \A i \in 1..Len(p) : ToLower(s[pos + i - 1]) = ToLower(p[i])

\* s.indexOf(p) >= 0
Contains(s, p) == \E pos \in 1..(Len(s) + 1) : HasAt(s, pos, p)

\* String.prototype.trim
RECURSIVE TrimLeft(_)
TrimLeft(s) == IF s # <<>> /\ IsSpace(Head(s)) THEN TrimLeft(Tail(s)) ELSE s
RECURSIVE TrimRight(_)
TrimRight(s) ==
    IF s # <<>> /\ IsSpace(s[Len(s)]) THEN TrimRight(SubSeq(s, 1, Len(s) - 1)) ELSE s
Trim(s) == TrimRight(TrimLeft(s))

\* s.split(",")
RECURSIVE Split(_)
Split(s) ==
    IF \A i \in 1..Len(s) : s[i] # ","
    THEN <<s>>
    ELSE LET k == CHOOSE i \in 1..Len(s) : s[i] = "," /\ \A j \in 1..(i - 1) : s[j] # ","
         IN <<SubSeq(s, 1, k - 1)>> \o Split(From(s, k + 1))

\* s.replace(/:/g, "")
RECURSIVE RemoveColons(_)
RemoveColons(s) ==
    IF s = <<>> THEN <<>>
    ELSE IF Head(s) = ":" THEN RemoveColons(Tail(s))
    ELSE <<Head(s)>> \o RemoveColons(Tail(s))

\* `${n}` for a non-negative integer n
RECURSIVE NumToStr(_)
NumToStr(n) ==
    IF n < 10 THEN <<Digits[n + 1]>>
    ELSE NumToStr(n \div 10) \o <<Digits[(n % 10) + 1]>>

\* two-digit field of moment's HH:mm:ss
Pad2(n) == <<Digits[(n \div 10) + 1], Digits[(n % 10) + 1]>>

\* ------------------------------------------------------------- numerals
Min(a, b) == IF a < b THEN a ELSE b

\* the digits loop of parseInt: the value of the longest prefix of digits
RECURSIVE ParseDigits(_, _, _)
ParseDigits(s, radix, acc) ==
    IF s = <<>> \/ DigitValue(Head(s), radix) = -1 THEN acc
    ELSE ParseDigits(Tail(s), radix, Min(BigId, acc * radix + DigitValue(Head(s), radix)))

\* parseInt(str, radix) for radix 10 and 16 (no sign: no caller passes one)
parseInt(str, radix) ==
    LET t == TrimLeft(str)
        u == IF radix = 16 /\ (HasAt(t, 1, <<"0","x">>) \/ HasAt(t, 1, <<"0","X">>))
             THEN From(t, 3) ELSE t
    IN IF u = <<>> \/ DigitValue(Head(u), radix) = -1 THEN NaN
       ELSE ParseDigits(u, radix, 0)

\* parseId without the auto-detection: every numeral read in base 10
parseId_Decimal(idStr) == parseInt(idStr, 10)

parseId(idStr) ==
    LET isHex == HasAt(idStr, 1, <<"0","x">>) \/ \E i \in 1..Len(idStr) : IsHexLetter(idStr[i])
    IN parseInt(idStr, IF isHex THEN 16 ELSE 10)

\* moment.utc(ms).format("HH:mm:ss") with "<days> days, " in front, for a
\* duration of dur seconds
DAYS_SEP == <<" ","d","a","y","s",","," ">>
formatUptime(dur) ==
    LET days == dur \div 86400
        rest == dur % 86400
    IN NumToStr(days) \o DAYS_SEP \o Pad2(rest \div 3600) \o <<":">>
         \o Pad2((rest % 3600) \div 60) \o <<":">> \o Pad2(rest % 60)

\* ------------------------------------------------- regular expressions
\* (?:[0-9A-Fa-f]{2}[seps]?){k}[0-9A-Fa-f]{2} matched at pos: the position
\* after the match, 0 when it does not match there
RECURSIVE MacGroups(_, _, _, _)
MacGroups(s, pos, k, seps) ==
    IF ~(pos + 1 <= Len(s) /\ IsHex(s[pos]) /\ IsHex(s[pos + 1])) THEN 0
    ELSE IF k = 0 THEN pos + 2
    ELSE MacGroups(s, IF pos + 2 <= Len(s) /\ s[pos + 2] \in seps THEN pos + 3 ELSE pos + 2,
                   k - 1, seps)

\* a mac pattern that accepts a line only when the whole line is a MAC
MacMatches_WholeLine(line) == line # <<>> /\ MacGroups(line, 1, 5, {":"}) = Len(line) + 1

\* patterns.mac: /([0-9A-Fa-f]{2}[:]?){5}([0-9A-Fa-f]{2})/
MacMatches(line) == \E p \in 1..Len(line) : MacGroups(line, p, 5, {":"}) # 0
\* match[0] of line.match(patterns.mac): the leftmost match
MacMatch0(line) ==
    LET p == CHOOSE q \in 1..Len(line) :
                 /\ MacGroups(line, q, 5, {":"}) # 0
                 /\ \A r \in 1..(q - 1) : MacGroups(line, r, 5, {":"}) = 0
    IN SubSeq(line, p, MacGroups(line, p, 5, {":"}) - 1)

\* . of a regular expression: any character but a line terminator
IsDot(c) == c \notin {"\n", "\r"}

\* the positions at which /<pat>(.+)/ matches
CaptureStarts(line, pat, anchored) ==
    {p \in 1..Len(line) :
        /\ anchored => p = 1
        /\ HasAt(line, p, pat)
        /\ p + Len(pat) <= Len(line)
        /\ IsDot(line[p + Len(pat)])}
PatMatches(line, pat, anchored) == CaptureStarts(line, pat, anchored) # {}
\* match[1]: the (.+) of the leftmost match, up to the end of its line
PatMatch1(line, pat, anchored) ==
    LET p == CHOOSE q \in CaptureStarts(line, pat, anchored) :
                 \A r \in CaptureStarts(line, pat, anchored) : q <= r
        b == p + Len(pat)
        e == CHOOSE j \in b..Len(line) :
                 /\ \A i \in b..j : IsDot(line[i])
                 /\ j = Len(line) \/ ~IsDot(line[j + 1])
    IN SubSeq(line, b, e)

PAT_FIRMWARE_VERSION == <<"F","I","R","M","W","A","R","E","_","V","E","R","S","I","O","N","=">>
PAT_BLE_MAC == <<"B","L","E","_","M","A","C","=">>
PAT_WIFI_MAC == <<"W","I","F","I","_","M","A","C","=">>
PAT_WLAN_VERSION == <<"W","L","A","N","_","V","E","R","S","I","O","N","=">>
PAT_TRACE == <<"T","R","A","C","E","=">>

KW_LS == <<"l","s">>
KW_CMD == <<"c","m","d">>
KW_CMDALL == <<"c","m","d","a","l","l">>
KW_DROP == <<"d","r","o","p">>

\* the first position at or after pos that holds no white space
RECURSIVE SkipSpaces(_, _)
SkipSpaces(s, pos) ==
    IF pos <= Len(s) /\ IsSpace(s[pos]) THEN SkipSpaces(s, pos + 1) ELSE pos

\* \s+(.+)$ matched at pos: the text of (.+), <<>> when it does not match.
\* \s+ takes all the white space; when nothing is left it gives one back.
SpacesThenRest(s, pos) ==
    LET r == SkipSpaces(s, pos)
    IN IF r = pos \/ \E i \in r..Len(s) : ~IsDot(s[i]) THEN <<>>
       ELSE IF r <= Len(s) THEN From(s, r)
       ELSE IF r - pos >= 2 /\ IsDot(s[Len(s)]) THEN <<s[Len(s)]>>
       ELSE <<>>

\* (?:,MAC)* after a MAC that ends before pos: the position after the list
RECURSIVE MacListEnd(_, _)
MacListEnd(s, pos) ==
    IF pos <= Len(s) /\ s[pos] = "," /\ MacGroups(s, pos + 1, 5, {":", "-"}) # 0
    THEN MacListEnd(s, MacGroups(s, pos + 1, 5, {":", "-"}))
    ELSE pos

\* the position after the run of [0-9A-Fa-f,] that starts at pos
RECURSIVE IdListEnd(_, _)
IdListEnd(s, pos) ==
    IF pos <= Len(s) /\ (IsHex(s[pos]) \/ s[pos] = ",") THEN IdListEnd(s, pos + 1) ELSE pos

\* the position after the run of [0-9A-Fa-f] that starts at pos
RECURSIVE HexEnd(_, _)
HexEnd(s, pos) ==
    IF pos <= Len(s) /\ IsHex(s[pos]) THEN HexEnd(s, pos + 1) ELSE pos

NoMatch == [matched |-> FALSE]

\* CONFIG.COMMANDS.LS: /^ls\s*(.*)$/i
MatchLS(line) ==
    IF HasAtI(line, 1, KW_LS) /\ \A i \in SkipSpaces(line, 3)..Len(line) : IsDot(line[i])
    THEN [matched |-> TRUE, g1 |-> From(line, SkipSpaces(line, 3))]
    ELSE NoMatch

\* CONFIG.COMMANDS.CMD_MAC
MatchCMD_MAC(line) ==
    LET b == SkipSpaces(line, 4)
        m == MacGroups(line, b, 5, {":", "-"})
        e == MacListEnd(line, m)
    IN IF HasAtI(line, 1, KW_CMD) /\ b > 4 /\ m # 0 /\ SpacesThenRest(line, e) # <<>>
       THEN [matched |-> TRUE, g1 |-> SubSeq(line, b, e - 1), g2 |-> SpacesThenRest(line, e)]
       ELSE NoMatch

\* CONFIG.COMMANDS.CMD_ID: /^cmd\s+([0-9A-Fa-f,]+)\s+(.+)/i
MatchCMD_ID(line) ==
    LET b == SkipSpaces(line, 4)
        e == IdListEnd(line, b)
    IN IF HasAtI(line, 1, KW_CMD) /\ b > 4 /\ e > b /\ SpacesThenRest(line, e) # <<>>
       THEN [matched |-> TRUE, g1 |-> SubSeq(line, b, e - 1), g2 |-> SpacesThenRest(line, e)]
       ELSE NoMatch

\* CONFIG.COMMANDS.CMDALL: /^cmdall\s+(.+)$/i
MatchCMDALL(line) ==
    IF HasAtI(line, 1, KW_CMDALL) /\ SpacesThenRest(line, 7) # <<>>
    THEN [matched |-> TRUE, g1 |-> SpacesThenRest(line, 7)]
    ELSE NoMatch

\* CONFIG.COMMANDS.DROP: /^drop\s+([0-9A-Fa-f]+)$/i
MatchDROP(line) ==
    LET b == SkipSpaces(line, 5)
        e == HexEnd(line, b)
    IN IF HasAtI(line, 1, KW_DROP) /\ b > 5 /\ e > b /\ e = Len(line) + 1
       THEN [matched |-> TRUE, g1 |-> SubSeq(line, b, e - 1)]
       ELSE NoMatch

\* ---------------------------------------------------------------- inputs
\* socket.remoteAddress of the accepted connections
ADDR1 == <<":",":","1">>
Addrs == {ADDR1}

\* chunks a device sends (one "data" event each)
MAC1 == <<"8","C",":","4","F",":","0","0",":","A","5",":","5","C",":","7","C">>
MAC2 == <<"A","A","B","B","C","C","D","D","E","E","F","F">>
NL == <<"\n">>
\* the same addresses in the other forms an admin can write
MAC1_BARE == <<"8","C","4","F","0","0","A","5","5","C","7","C">>
MAC1_DASH == <<"8","C","-","4","F","-","0","0","-","A","5","-","5","C","-","7","C">>
MAC2_COLON == <<"A","A",":","B","B",":","C","C",":","D","D",":","E","E",":","F","F">>
CH_MAC1 == MAC1 \o NL
CH_MAC2 == MAC2 \o NL
MAC3 == <<"1","1",":","2","2",":","3","3",":","4","4",":","5","5",":","6","6">>
CH_WIFI == <<"W","I","F","I","_","M","A","C","=">> \o MAC3 \o NL
CH_FW == <<"F","I","R","M","W","A","R","E","_","V","E","R","S","I","O","N","=","v","3","\n">>
CH_EMPTY == <<"\n">>
\* chunks with telemetry
CH_MAC_FW == <<"8","C",":","4","F",":","0","0",":","A","5",":","5","C",":","7","C"," ","F","I","R","M","W","A","R","E","_","V","E","R","S","I","O","N","=","v","3","\n">>
CH_TRACE1 == <<"T","R","A","C","E","=","t","1","\n">>
CH_TRACE2 == <<"T","R","A","C","E","=","t","2","\n">>
CH_BLE_WLAN == <<"B","L","E","_","M","A","C","=","b","1"," ","W","L","A","N","_","V","E","R","S","I","O","N","=","w","1","\n">>
\* a chunk of two lines, and a line that arrives in two chunks
CH_TWO_LINES == <<"8","C",":","4","F",":","0","0",":","A","5",":","5","C",":","7","C","\n","T","R","A","C","E","=","t","1","\n">>
CH_TRA == <<"T","R","A">>
CH_CE == <<"C","E","=","t","1","\n">>
\* a telemetry line whose value is a MAC without colons
CH_BLE == <<"B","L","E","_","M","A","C","=","F","6","4","5","2","1","C","A","A","3","9","6","\n">>
DevChunks ==
    {CH_MAC1, CH_MAC2, CH_WIFI, CH_FW, CH_EMPTY, CH_MAC_FW, CH_TRACE1, CH_TRACE2, CH_BLE_WLAN,
     CH_TWO_LINES, CH_TRA, CH_CE, CH_BLE}
\* the chunks of the runs that exercise the connection life cycle
LifeChunks == {CH_MAC1, CH_WIFI, CH_EMPTY}
\* the chunks of the runs in which the transport groups the bytes freely
StreamChunks == {CH_TWO_LINES, CH_TRA, CH_CE, CH_TRACE1}
\* the chunks of the runs in which telemetry lines carry MAC addresses
IdentChunks == {CH_BLE, CH_WIFI, CH_FW}
\* the chunks of the runs that exercise the telemetry
TelChunks == {CH_MAC1, CH_MAC_FW, CH_TRACE1, CH_TRACE2, CH_BLE_WLAN}
\* the chunks of the runs that exercise the command grammar
CmdChunks == {CH_MAC1, CH_MAC2}

\* lines an admin sends
PAYLOAD_P == <<"P">>
LN_LS == <<"l","s">>
LN_LS_TOKEN == <<"l","s"," ","A","A","B","B">>
LN_LS_TRACE == <<"l","s"," ","t","r","a","c","e">>
LN_LS_ID == <<"l","s"," ","[","1","0","0","2","]">>
LN_CMD_3E8 == <<"c","m","d"," ","3","E","8"," ","P">>
LN_CMD_1000 == <<"c","m","d"," ","1","0","0","0"," ","P">>
LN_CMD_3E9 == <<"c","m","d"," ","3","E","9"," ","P">>
LN_CMD_1001 == <<"c","m","d"," ","1","0","0","1"," ","P">>
LN_CMD_3ea == <<"c","m","d"," ","3","e","a"," ","P">>
LN_CMD_1002 == <<"c","m","d"," ","1","0","0","2"," ","P">>
LN_CMD_0x3E9 == <<"c","m","d"," ","0","x","3","E","9"," ","P">>
LN_DROP_0x3E9 == <<"d","r","o","p"," ","0","x","3","E","9">>
LN_DROP_1001 == <<"d","r","o","p"," ","1","0","0","1">>
LN_DROP_2000 == <<"d","r","o","p"," ","2","0","0","0">>
LN_DROP_3E9 == <<"d","r","o","p"," ","3","E","9">>
LN_CMD_MIXED == <<"c","m","d"," ","1","0","0","1",",","A","A","B","B","C","C","D","D","E","E","F","F"," ","P">>
LN_CMD_MAC2 == <<"c","m","d"," ","A","A","B","B","C","C","D","D","E","E","F","F"," ","P">>
LN_CMDALL == <<"c","m","d","a","l","l"," ","X">>
LN_CMDALL_P == <<"c","m","d","a","l","l"," ","P">>
LN_BLANK == <<" ">>
\* cmd lines whose targets are MAC addresses
LN_CMD_MAC1 == <<"c","m","d"," ","8","C",":","4","F",":","0","0",":","A","5",":","5","C",":","7","C"," ","P">>
LN_CMD_MAC1_BARE == <<"c","m","d"," ","8","C","4","F","0","0","A","5","5","C","7","C"," ","P">>
LN_CMD_MAC1_DASH == <<"c","m","d"," ","8","C","-","4","F","-","0","0","-","A","5","-","5","C","-","7","C"," ","P">>
LN_CMD_MAC2_COLON == <<"c","m","d"," ","A","A",":","B","B",":","C","C",":","D","D",":","E","E",":","F","F"," ","P">>
\* cmd lines with a malformed element in the target list
LN_CMD_EMPTY_EL == <<"c","m","d"," ","1","0","0","1",",",",","1","0","0","2"," ","P">>
LN_CMD_NONHEX == <<"c","m","d"," ","1","0","0","1",",","z","z"," ","P">>
LN_CMD_LIST_12 == <<"c","m","d"," ","8","C",":","4","F",":","0","0",":","A","5",":","5","C",":","7","C",",","A","A","B","B","C","C","D","D","E","E","F","F"," ","P">>
LN_CMD_LIST_31 == <<"c","m","d"," ","1","1",":","2","2",":","3","3",":","4","4",":","5","5",":","6","6",",","8","C",":","4","F",":","0","0",":","A","5",":","5","C",":","7","C"," ","P">>
LN_CMD_LIST_132 == <<"c","m","d"," ","8","C",":","4","F",":","0","0",":","A","5",":","5","C",":","7","C",",","1","1",":","2","2",":","3","3",":","4","4",":","5","5",":","6","6",",","A","A","B","B","C","C","D","D","E","E","F","F"," ","P">>
LN_CMD_LIST_13 == <<"c","m","d"," ","A","A","B","B","C","C","D","D","E","E","F","F",",","1","1",":","2","2",":","3","3",":","4","4",":","5","5",":","6","6"," ","P">>
AdminLines ==
    {LN_LS, LN_LS_TOKEN, LN_LS_TRACE, LN_LS_ID, LN_CMD_3E8, LN_CMD_1000, LN_CMD_3E9,
     LN_CMD_1001, LN_CMD_3ea, LN_CMD_1002, LN_CMD_0x3E9, LN_DROP_0x3E9, LN_DROP_1001, LN_DROP_3E9, LN_CMD_MIXED,
     LN_CMD_MAC2, LN_CMDALL, LN_CMDALL_P, LN_BLANK,
     LN_CMD_MAC1, LN_CMD_MAC1_BARE, LN_CMD_MAC1_DASH, LN_CMD_MAC2_COLON,
     LN_CMD_LIST_12, LN_CMD_LIST_31, LN_CMD_LIST_132, LN_CMD_LIST_13,
     LN_CMD_EMPTY_EL, LN_CMD_NONHEX, LN_DROP_2000}

\* the commands of the runs in other letter cases of the keyword
LN_LS_UP == <<"L","S">>
LN_LS_MIX == <<"L","s">>
LN_CMD_UP == <<"C","M","D"," ","1","0","0","1"," ","P">>
LN_CMD_MIX == <<"c","M","d"," ","1","0","0","1"," ","P">>
LN_CMDALL_UP == <<"C","M","D","A","L","L"," ","P">>
LN_CMDALL_MIX == <<"C","m","d","A","l","l"," ","P">>
LN_DROP_UP == <<"D","R","O","P"," ","1","0","0","1">>
LN_DROP_MIX == <<"D","r","o","p"," ","1","0","0","1">>
\* the lines of the runs that exercise the letter case of the keywords
CaseLines ==
    {LN_LS, LN_LS_UP, LN_LS_MIX, LN_CMD_1001, LN_CMD_UP, LN_CMD_MIX,
     LN_CMDALL_P, LN_CMDALL_UP, LN_CMDALL_MIX, LN_DROP_1001, LN_DROP_UP, LN_DROP_MIX}
\* lines that are no command
LN_INVALID == <<"i","n","v","a","l","i","d","_","c","o","m","m","a","n","d","_","x","y","z">>
LN_CMD_NOPAYLOAD == <<"c","m","d"," ","1","0","0","1">>
LN_DROP_XYZ == <<"d","r","o","p"," ","x","y","z">>
LN_CMDALL_BARE == <<"c","m","d","a","l","l">>
\* the lines of the runs that exercise the lines no grammar matches
NoMatchLines ==
    {LN_INVALID, LN_CMD_NOPAYLOAD, LN_DROP_XYZ, LN_CMDALL_BARE, LN_CMD_0x3E9, LN_CMD_NONHEX}
\* lines with white space around the command, and the empty lines
LN_LS_PAD == <<" "," ","l","s"," ","\t">>
LN_CMD_PAD == <<" ","c","m","d"," ","1","0","0","1"," ","P"," ">>
LN_EMPTY == <<>>
AuditLines ==
    {LN_EMPTY, LN_BLANK, LN_LS_PAD, LN_CMD_PAD, LN_LS, LN_CMD_LIST_13, LN_DROP_1001, LN_INVALID}
\* every line of the runs
AllLines == AdminLines \cup CaseLines \cup NoMatchLines \cup AuditLines

\* the lines of the runs that exercise the connection life cycle
LifeLines == {LN_LS, LN_DROP_1001, LN_CMDALL_P, LN_CMD_1001, LN_BLANK}
\* the lines of the runs that exercise the device connection handler
DevLines == {LN_DROP_1001, LN_CMDALL_P}

\* seconds between a session's start and the moment() of an ls
Uptimes == {0, 3661}

\* ----------------------------------------------------------------- state
DevIds == (SessionIdStart + 1)..(SessionIdStart + MaxDev)
AdminIds == 1..MaxAdmin

VARIABLES
    sessionIdCounter,   \* state.sessionIdCounter
    sessions,           \* state.sessions: the keys of the Map, in insertion order
    session,            \* the session object created for each id
    socket,             \* each device socket: "none", "open", "ended", "destroyed", "closed"
    timer,              \* each validationTimeout: "none", "armed", "fired", "cleared"
    admins,             \* state.admins
    asocket,            \* each admin socket, as socket
    console,            \* the lines the last handler passed to logToAdmins, in order
    adminRecv,          \* the lines the last handler wrote to each admin socket
    devRecv,            \* the text the last handler wrote to each device socket
    last,               \* the handler that ran last and its input
    cleanups,           \* how often the close handler of each device connection ran
    notValid,           \* how often [DEV NOT VALID] was broadcast for each connection
    handshakes          \* how often the SYS handshake was written to each device

vars == <<sessionIdCounter, sessions, session, socket, timer, admins, asocket,
          console, adminRecv, devRecv, last, cleanups, notValid, handshakes>>

\* the counters above stop counting here
CountCap == 3
Inc(n) == Min(CountCap, n + 1)

NoSession ==
    [id |-> 0, status |-> "none", token |-> <<>>, mac |-> <<>>, trace |-> <<>>,
     fwVer |-> <<>>, addr |-> <<>>, bleMac |-> <<>>, wlanFwVer |-> <<>>, wifiMac |-> <<>>]

\* socket.writable
Writable(sock) == sock = "open"
\* socket.destroy(): the close event becomes pending, once
Destroyed(sock) == IF sock \in {"open", "ended"} THEN "destroyed" ELSE sock
\* clearTimeout(validationTimeout)
Cleared(t) == IF t = "armed" THEN "cleared" ELSE t

InRegistry(id) == \E i \in 1..Len(sessions) : sessions[i] = id

\* a delete that removes the oldest entry of the Map instead of the given one
Delete_Oldest(seq, id) == IF seq = <<>> THEN <<>> ELSE Tail(seq)

\* state.sessions.delete(sessionId)
RECURSIVE Delete(_, _)
Delete(seq, id) ==
    IF seq = <<>> THEN <<>>
    ELSE IF Head(seq) = id THEN Tail(seq)
    ELSE <<Head(seq)>> \o Delete(Tail(seq), id)

\* findSessionById: the id when the Map has it, 0 for undefined
findSessionById(id) == IF InRegistry(id) THEN id ELSE 0

\* a lookup that returns the last session, in Map order, whose mac is mac
findSessionByMac_Last(mac) ==
    IF \E i \in 1..Len(sessions) : session[sessions[i]].mac = mac
    THEN sessions[CHOOSE i \in 1..Len(sessions) :
                      /\ session[sessions[i]].mac = mac
                      /\ \A j \in (i + 1)..Len(sessions) : session[sessions[j]].mac # mac]
    ELSE 0

\* findSessionByMac: the first session, in Map order, whose mac is mac
findSessionByMac(mac) ==
    IF \E i \in 1..Len(sessions) : session[sessions[i]].mac = mac
    THEN sessions[CHOOSE i \in 1..Len(sessions) :
                      /\ session[sessions[i]].mac = mac
                      /\ \A j \in 1..(i - 1) : session[sessions[j]].mac # mac]
    ELSE 0

\* a broadcast that stops at the first admin whose socket is not writable
\* (admins in the order of their connection numbers)
logToAdmins_StopsAtFailure(adm, socks, msgs) ==
    [a \in AdminIds |->
        IF a \in adm /\ \A b \in adm : b <= a => Writable(socks[b]) THEN msgs ELSE <<>>]

\* logToAdmins: what each admin socket receives of the lines msgs, when the
\* admin set is adm and the admin sockets are socks
logToAdmins(adm, socks, msgs) ==
    [a \in AdminIds |-> IF a \in adm /\ Writable(socks[a]) THEN msgs ELSE <<>>]

NoWrites == [id \in DevIds |-> <<>>]

\* what every handler leaves behind: its log lines and its device writes
Output(op, who, arg, adm, socks, msgs, writes) ==
    /\ last' = [op |-> op, who |-> who, arg |-> arg]
    /\ console' = msgs
    /\ adminRecv' = logToAdmins(adm, socks, msgs)
    /\ devRecv' = writes

Init ==
    /\ sessionIdCounter = SessionIdStart
    /\ sessions = <<>>
    /\ session = [id \in DevIds |-> NoSession]
    /\ socket = [id \in DevIds |-> "none"]
    /\ timer = [id \in DevIds |-> "none"]
    /\ admins = {}
    /\ asocket = [a \in AdminIds |-> "none"]
    /\ console = <<[tag |-> "SERVER_START"]>>
    /\ adminRecv = [a \in AdminIds |-> <<>>]
    /\ devRecv = NoWrites
    /\ last = [op |-> "initServers", who |-> 0, arg |-> <<>>]
    /\ cleanups = [id \in DevIds |-> 0]
    /\ notValid = [id \in DevIds |-> 0]
    /\ handshakes = [id \in DevIds |-> 0]

\* ------------------------------------------------ device connection handler
\* an allocator that derives the id from the size of the Map
NextSessionId_BySize(counter) == SessionIdStart + Len(sessions) + 1

\* the id a new connection gets: ++state.sessionIdCounter
NextSessionId(counter) == counter + 1

\* handleRemoteConnection(socket), up to the registration of the handlers
handleRemoteConnection(addr) ==
    LET sessionId == NextSessionId(sessionIdCounter)
    IN /\ sessionIdCounter < SessionIdStart + MaxDev
       /\ sessionIdCounter' = sessionId
       /\ session' = [session EXCEPT ![sessionId] =
              [id |-> sessionId, status |-> "connect", token |-> NA, mac |-> NA,
               trace |-> NA, fwVer |-> NA, addr |-> addr, bleMac |-> NA,
               wlanFwVer |-> NA, wifiMac |-> UNDEFINED]]
       /\ sessions' = Append(sessions, sessionId)
       /\ socket' = [socket EXCEPT ![sessionId] = "open"]
       /\ timer' = [timer EXCEPT ![sessionId] = "armed"]
       /\ Output("handleRemoteConnection", sessionId, <<>>, admins, asocket,
                 <<[tag |-> "CONN", id |-> sessionId, addr |-> addr]>>, NoWrites)
       /\ UNCHANGED <<admins, asocket, cleanups, notValid, handshakes>>

\* a callback that reports the device but leaves the connection open
validationTimeout_NoClose(id) ==
    /\ timer[id] = "armed"
    /\ timer' = [timer EXCEPT ![id] = "fired"]
    /\ IF session[id].mac = NA
       THEN /\ notValid' = [notValid EXCEPT ![id] = Inc(@)]
            /\ Output("validationTimeout", id, <<>>, admins, asocket,
                      <<[tag |-> "DEV_NOT_VALID", addr |-> session[id].addr,
                         mac |-> session[id].mac]>>, NoWrites)
       ELSE /\ Output("validationTimeout", id, <<>>, admins, asocket, <<>>, NoWrites)
            /\ UNCHANGED notValid
    /\ UNCHANGED <<sessionIdCounter, sessions, session, socket, admins, asocket,
                   cleanups, handshakes>>

\* the callback of validationTimeout
validationTimeout(id) ==
    /\ timer[id] = "armed"
    /\ timer' = [timer EXCEPT ![id] = "fired"]
    /\ IF session[id].mac = NA
       THEN /\ socket' = [socket EXCEPT ![id] = Destroyed(@)]
            /\ notValid' = [notValid EXCEPT ![id] = Inc(@)]
            /\ Output("validationTimeout", id, <<>>, admins, asocket,
                      <<[tag |-> "DEV_NOT_VALID", addr |-> session[id].addr,
                         mac |-> session[id].mac]>>,
                      [NoWrites EXCEPT ![id] =
                          IF Writable(socket[id]) THEN <<NOT_VALID_MSG>> ELSE <<>>])
       ELSE /\ Output("validationTimeout", id, <<>>, admins, asocket, <<>>, NoWrites)
            /\ UNCHANGED <<socket, notValid>>
    /\ UNCHANGED <<sessionIdCounter, sessions, session, admins, asocket, cleanups, handshakes>>

\* line.match(pattern) of one telemetry pattern: whether it matched, and match[1]
PatScan(line, pat, anchored) ==
    [matched |-> PatMatches(line, pat, anchored),
     g1 |-> IF PatMatches(line, pat, anchored) THEN PatMatch1(line, pat, anchored) ELSE <<>>]

\* the first lines of the data handler: the trimmed chunk and the matches of
\* the patterns on it
ScanChunk(chunk) ==
    LET line == Trim(chunk)
    IN [line |-> line,
        mac |-> [matched |-> MacMatches(line),
                 g0 |-> IF MacMatches(line) THEN MacMatch0(line) ELSE <<>>],
        firmwareVersion |-> PatScan(line, PAT_FIRMWARE_VERSION, FALSE),
        bleMac |-> PatScan(line, PAT_BLE_MAC, FALSE),
        wifiMac |-> PatScan(line, PAT_WIFI_MAC, FALSE),
        wlanFwVer |-> PatScan(line, PAT_WLAN_VERSION, FALSE),
        trace |-> PatScan(line, PAT_TRACE, TRUE)]

\* ScanChunk of every chunk of the runs
Scanned == [chunk \in DevChunks |-> ScanChunk(chunk)]

\* a telemetry loop that keeps the first value a field was given
Telemetry_FirstWins(s, scan) ==
    [s EXCEPT
       !.fwVer = IF scan.firmwareVersion.matched /\ @ = NA THEN scan.firmwareVersion.g1 ELSE @,
       !.bleMac = IF scan.bleMac.matched /\ @ = NA THEN scan.bleMac.g1 ELSE @,
       !.wifiMac = IF scan.wifiMac.matched /\ @ = UNDEFINED THEN scan.wifiMac.g1 ELSE @,
       !.wlanFwVer = IF scan.wlanFwVer.matched /\ @ = NA THEN scan.wlanFwVer.g1 ELSE @,
       !.trace = IF scan.trace.matched /\ @ = NA THEN scan.trace.g1 ELSE @]

\* the telemetry loop of the data handler: every pattern but mac
Telemetry(s, scan) ==
    [s EXCEPT
       !.fwVer = IF scan.firmwareVersion.matched THEN scan.firmwareVersion.g1 ELSE @,
       !.bleMac = IF scan.bleMac.matched THEN scan.bleMac.g1 ELSE @,
       !.wifiMac = IF scan.wifiMac.matched THEN scan.wifiMac.g1 ELSE @,
       !.wlanFwVer = IF scan.wlanFwVer.matched THEN scan.wlanFwVer.g1 ELSE @,
       !.trace = IF scan.trace.matched THEN scan.trace.g1 ELSE @]

\* identification without the "only if not already set" test
Identifies_NoGuard(mac, macMatch) == macMatch

\* the condition under which the data handler identifies the session
Identifies(mac, macMatch) == macMatch /\ mac = NA

\* the two writes in the other order
Handshake_Swapped == <<SYS_DBG_LINE, SYS_LINE>>

\* the two socket.write calls of the identification
Handshake == <<SYS_LINE, SYS_DBG_LINE>>

\* a data handler that scans the line for the MAC before it echoes it
DeviceData_EchoAfterScan(id, chunk) ==
    LET scan == Scanned[chunk]
        line == scan.line
        s == session[id]
        ident == Identifies(s.mac, scan.mac.matched)
        s1 == IF ident
              THEN [s EXCEPT !.mac = scan.mac.g0, !.token = RemoveColons(scan.mac.g0)]
              ELSE s
    IN /\ socket[id] = "open"
       /\ IF line = <<>>
          THEN /\ Output("data", id, chunk, admins, asocket, <<>>, NoWrites)
               /\ UNCHANGED <<session, timer, handshakes>>
          ELSE /\ session' = [session EXCEPT ![id] = Telemetry(s1, scan)]
               /\ timer' = IF ident THEN [timer EXCEPT ![id] = Cleared(@)] ELSE timer
               /\ handshakes' = IF ident THEN [handshakes EXCEPT ![id] = Inc(@)] ELSE handshakes
               /\ Output("data", id, chunk, admins, asocket,
                         (IF ident
                          THEN <<[tag |-> "MAC", mac |-> s1.mac, addr |-> s1.addr]>>
                          ELSE <<>>)
                           \o <<[tag |-> "MSG_LINE", id |-> s1.id, token |-> s1.token, line |-> line]>>,
                         [NoWrites EXCEPT ![id] =
                             IF ident THEN Handshake ELSE <<>>])
       /\ UNCHANGED <<sessionIdCounter, sessions, socket, admins, asocket, cleanups, notValid>>

\* a data handler whose identification sets mac and leaves token as it was
DeviceData_MacOnly(id, chunk) ==
    LET scan == Scanned[chunk]
        line == scan.line
        s == session[id]
        ident == Identifies(s.mac, scan.mac.matched)
        s1 == IF ident THEN [s EXCEPT !.mac = scan.mac.g0] ELSE s
    IN /\ socket[id] = "open"
       /\ IF line = <<>>
          THEN /\ Output("data", id, chunk, admins, asocket, <<>>, NoWrites)
               /\ UNCHANGED <<session, timer, handshakes>>
          ELSE /\ session' = [session EXCEPT ![id] = Telemetry(s1, scan)]
               /\ timer' = IF ident THEN [timer EXCEPT ![id] = Cleared(@)] ELSE timer
               /\ handshakes' = IF ident THEN [handshakes EXCEPT ![id] = Inc(@)] ELSE handshakes
               /\ Output("data", id, chunk, admins, asocket,
                         <<[tag |-> "MSG_LINE", id |-> s.id, token |-> s.token, line |-> line]>>
                           \o (IF ident
                               THEN <<[tag |-> "MAC", mac |-> s1.mac, addr |-> s1.addr]>>
                               ELSE <<>>),
                         [NoWrites EXCEPT ![id] =
                             IF ident THEN Handshake ELSE <<>>])
       /\ UNCHANGED <<sessionIdCounter, sessions, socket, admins, asocket, cleanups, notValid>>

\* socket.on("data")
DeviceData(id, chunk) ==
    LET scan == Scanned[chunk]
        line == scan.line
        s == session[id]
        ident == Identifies(s.mac, scan.mac.matched)
        s1 == IF ident
              THEN [s EXCEPT !.mac = scan.mac.g0, !.token = RemoveColons(scan.mac.g0)]
              ELSE s
    IN /\ socket[id] = "open"
       /\ IF line = <<>>
          THEN /\ Output("data", id, chunk, admins, asocket, <<>>, NoWrites)
               /\ UNCHANGED <<session, timer, handshakes>>
          ELSE /\ session' = [session EXCEPT ![id] = Telemetry(s1, scan)]
               /\ timer' = IF ident THEN [timer EXCEPT ![id] = Cleared(@)] ELSE timer
               /\ handshakes' = IF ident THEN [handshakes EXCEPT ![id] = Inc(@)] ELSE handshakes
               /\ Output("data", id, chunk, admins, asocket,
                         <<[tag |-> "MSG_LINE", id |-> s.id, token |-> s.token, line |-> line]>>
                           \o (IF ident
                               THEN <<[tag |-> "MAC", mac |-> s1.mac, addr |-> s1.addr]>>
                               ELSE <<>>),
                         [NoWrites EXCEPT ![id] =
                             IF ident THEN Handshake ELSE <<>>])
       /\ UNCHANGED <<sessionIdCounter, sessions, socket, admins, asocket, cleanups, notValid>>

\* socket.on("end"): the peer closed; the socket ends its own side
DeviceEnd(id) ==
    /\ socket[id] = "open"
    /\ socket' = [socket EXCEPT ![id] = "ended"]
    /\ Output("end", id, <<>>, admins, asocket,
              <<[tag |-> "END", id |-> session[id].id, mac |-> session[id].mac,
                 addr |-> session[id].addr]>>, NoWrites)
    /\ UNCHANGED <<sessionIdCounter, sessions, session, timer, admins, asocket,
                   cleanups, notValid, handshakes>>

\* socket.on("error"): the socket is destroyed after the handler
DeviceError(id) ==
    /\ socket[id] \in {"open", "ended"}
    /\ socket' = [socket EXCEPT ![id] = "destroyed"]
    /\ Output("error", id, <<>>, admins, asocket,
              <<[tag |-> "ERROR", id |-> session[id].id, mac |-> session[id].mac,
                 addr |-> session[id].addr]>>, NoWrites)
    /\ UNCHANGED <<sessionIdCounter, sessions, session, timer, admins, asocket,
                   cleanups, notValid, handshakes>>

\* socket.on("timeout"). A socket emits this event only when an idle timeout
\* was set on it with socket.setTimeout; the program never calls it
\* (setKeepAlive only turns on the TCP keep-alive probes), so no step of the
\* specifications below delivers the event.
DeviceTimeout(id) ==
    /\ socket[id] = "open"
    /\ socket' = [socket EXCEPT ![id] = Destroyed(@)]
    /\ Output("timeout", id, <<>>, admins, asocket,
              <<[tag |-> "TIMEOUT", id |-> session[id].id, mac |-> session[id].mac,
                 addr |-> session[id].addr]>>,
              [NoWrites EXCEPT ![id] = <<IDLE_TIMEOUT_MSG>>])
    /\ UNCHANGED <<sessionIdCounter, sessions, session, timer, admins, asocket,
                   cleanups, notValid, handshakes>>

\* a close handler that leaves validationTimeout pending
DeviceClose_NoClear(id) ==
    /\ socket[id] \in {"ended", "destroyed"}
    /\ socket' = [socket EXCEPT ![id] = "closed"]
    /\ session' = [session EXCEPT ![id].status = "close"]
    /\ sessions' = Delete(sessions, id)
    /\ cleanups' = [cleanups EXCEPT ![id] = Inc(@)]
    /\ Output("close", id, <<>>, admins, asocket,
              <<[tag |-> "CLOSE", id |-> session[id].id, mac |-> session[id].mac,
                 addr |-> session[id].addr]>>, NoWrites)
    /\ UNCHANGED <<sessionIdCounter, timer, admins, asocket, notValid, handshakes>>

\* a close handler that forgets state.sessions.delete
DeviceClose_KeepsSession(id) ==
    /\ socket[id] \in {"ended", "destroyed"}
    /\ socket' = [socket EXCEPT ![id] = "closed"]
    /\ timer' = [timer EXCEPT ![id] = Cleared(@)]
    /\ session' = [session EXCEPT ![id].status = "close"]
    /\ cleanups' = [cleanups EXCEPT ![id] = Inc(@)]
    /\ Output("close", id, <<>>, admins, asocket,
              <<[tag |-> "CLOSE", id |-> session[id].id, mac |-> session[id].mac,
                 addr |-> session[id].addr]>>, NoWrites)
    /\ UNCHANGED <<sessionIdCounter, sessions, admins, asocket, notValid, handshakes>>

\* socket.on("close")
DeviceClose(id) ==
    /\ socket[id] \in {"ended", "destroyed"}
    /\ socket' = [socket EXCEPT ![id] = "closed"]
    /\ timer' = [timer EXCEPT ![id] = Cleared(@)]
    /\ session' = [session EXCEPT ![id].status = "close"]
    /\ sessions' = Delete(sessions, id)
    /\ cleanups' = [cleanups EXCEPT ![id] = Inc(@)]
    /\ Output("close", id, <<>>, admins, asocket,
              <<[tag |-> "CLOSE", id |-> session[id].id, mac |-> session[id].mac,
                 addr |-> session[id].addr]>>, NoWrites)
    /\ UNCHANGED <<sessionIdCounter, admins, asocket, notValid, handshakes>>

\* --------------------------------------------------- admin command processor
SESS_OPEN == <<"[","S","E","S","S","]","[">>
SESS_MID == <<"]","[">>
SESS_CLOSE == <<"]"," ">>
SESS_TRACE == <<" ","t","r","a","c","e",":"," ">>
SESS_TAB == <<"\t">>
SESS_ADDR == <<"\t","-","-"," ">>

\* the template string out of the LS branch, for a session that started
\* dur seconds ago
SessLine(s, dur) ==
    SESS_OPEN \o NumToStr(s.id) \o SESS_MID \o s.token \o SESS_CLOSE \o formatUptime(dur)
      \o SESS_TRACE \o s.trace \o SESS_TAB \o s.fwVer \o SESS_ADDR \o s.addr

\* the filter written as (opt && out.indexOf(opt) >= 0)
LsSelects_NeedsFilter(opt, out) == opt # <<>> /\ Contains(out, opt)
\* the filter left out
LsSelects_All(opt, out) == TRUE

\* if (!opt || out.indexOf(opt) >= 0)
LsSelects(opt, out) == opt = <<>> \/ Contains(out, opt)

\* state.sessions.forEach of the LS branch over the ids in seq
RECURSIVE LsLoop(_, _, _)
LsLoop(seq, opt, up) ==
    IF seq = <<>> THEN <<>>
    ELSE LET out == SessLine(session[Head(seq)], up)
         IN (IF LsSelects(opt, out) THEN <<[tag |-> "SESS", id |-> Head(seq), text |-> out]>>
             ELSE <<>>)
            \o LsLoop(Tail(seq), opt, up)

NoEffect == [msgs |-> <<>>, writes |-> NoWrites, destroy |-> {}]

\* a target loop that gives up after the first target it could not deliver to
CmdTarget_AbortAfterMiss(acc, sid, cmd, notFound, notWritable) ==
    IF \E i \in DOMAIN acc.msgs : acc.msgs[i].tag = "CMD_ERROR" THEN acc
    ELSE IF sid # 0 /\ Writable(socket[sid])
    THEN [acc EXCEPT !.msgs = Append(@, [tag |-> "CMD", cmd |-> cmd]),
                     !.writes[sid] = Append(@, cmd \o NL)]
    ELSE IF sid = 0 THEN [acc EXCEPT !.msgs = Append(@, notFound)]
    ELSE [acc EXCEPT !.msgs = Append(@, notWritable)]

\* a target branch that does not look at socket.writable
CmdTarget_IgnoresWritable(acc, sid, cmd, notFound, notWritable) ==
    IF sid # 0
    THEN [acc EXCEPT !.msgs = Append(@, [tag |-> "CMD", cmd |-> cmd]),
                     !.writes[sid] = Append(@, cmd \o NL)]
    ELSE [acc EXCEPT !.msgs = Append(@, notFound)]

\* a target branch that says nothing about a target it does not find
CmdTarget_SilentNotFound(acc, sid, cmd, notFound, notWritable) ==
    IF sid # 0 /\ Writable(socket[sid])
    THEN [acc EXCEPT !.msgs = Append(@, [tag |-> "CMD", cmd |-> cmd]),
                     !.writes[sid] = Append(@, cmd \o NL)]
    ELSE IF sid = 0 THEN acc
    ELSE [acc EXCEPT !.msgs = Append(@, notWritable)]

\* one target of cmd, once it is resolved to the session sid (0: no session):
\* the branches on session and session.socket.writable
CmdTarget(acc, sid, cmd, notFound, notWritable) ==
    IF sid # 0 /\ Writable(socket[sid])
    THEN [acc EXCEPT !.msgs = Append(@, [tag |-> "CMD", cmd |-> cmd]),
                     !.writes[sid] = Append(@, cmd \o NL)]
    ELSE IF sid = 0 THEN [acc EXCEPT !.msgs = Append(@, notFound)]
    ELSE [acc EXCEPT !.msgs = Append(@, notWritable)]

\* macs.forEach of the CMD_MAC branch; macs holds each element trimmed
RECURSIVE CmdMacLoop(_, _, _)
CmdMacLoop(macs, cmd, acc) ==
    IF macs = <<>> THEN acc
    ELSE LET mac == Head(macs)
         IN CmdMacLoop(Tail(macs), cmd,
                CmdTarget(acc, findSessionByMac(mac), cmd,
                    [tag |-> "CMD_ERROR", what |-> "mac not found", mac |-> mac],
                    [tag |-> "CMD_ERROR", what |-> "mac not writable", mac |-> mac]))

\* ids.forEach of the CMD_ID branch; ids holds each element with its parseId
RECURSIVE CmdIdLoop(_, _, _)
CmdIdLoop(ids, cmd, acc) ==
    IF ids = <<>> THEN acc
    ELSE LET idStr == Head(ids).idStr
             id == Head(ids).id
         IN CmdIdLoop(Tail(ids), cmd,
                IF id = NaN
                THEN [acc EXCEPT !.msgs = Append(@,
                          [tag |-> "CMD_ERROR", what |-> "invalid id format", idStr |-> idStr])]
                ELSE CmdTarget(acc, findSessionById(id), cmd,
                         [tag |-> "CMD_ERROR", what |-> "id not found", id |-> id],
                         [tag |-> "CMD_ERROR", what |-> "id not writable", id |-> id]))

\* a broadcast that writes to every session of the registry
CmdAllSelects_Everyone(sid) == TRUE

\* if (session.socket.writable) of the CMDALL branch
CmdAllSelects(sid) == Writable(socket[sid])

\* state.sessions.forEach of the CMDALL branch over the ids in seq
RECURSIVE CmdAllLoop(_, _, _)
CmdAllLoop(seq, cmd, acc) ==
    IF seq = <<>> THEN acc
    ELSE LET sid == Head(seq)
         IN CmdAllLoop(Tail(seq), cmd,
                IF CmdAllSelects(sid)
                THEN [acc EXCEPT !.msgs = Append(@, [tag |-> "CMD", id |-> session[sid].id,
                                                     addr |-> session[sid].addr, cmd |-> cmd]),
                                 !.writes[sid] = Append(@, cmd \o NL)]
                ELSE acc)

\* a DROP branch that broadcasts [DROP] before it looks the session up
DropBranch_AlwaysLogs(id) ==
    LET sid == findSessionById(id)
    IN IF id = NaN THEN NoEffect
       ELSE IF sid = 0 THEN [NoEffect EXCEPT !.msgs = <<[tag |-> "DROP", id |-> id]>>]
       ELSE [msgs |-> <<[tag |-> "DROP", id |-> id]>>,
             writes |-> [NoWrites EXCEPT ![sid] =
                            IF Writable(socket[sid]) THEN <<DROP_MSG>> ELSE <<>>],
             destroy |-> {sid}]

\* a DROP branch that writes its message and leaves the connection open
DropBranch_KeepsOpen(id) ==
    LET sid == findSessionById(id)
    IN IF id = NaN \/ sid = 0 THEN NoEffect
       ELSE [msgs |-> <<[tag |-> "DROP", id |-> id]>>,
             writes |-> [NoWrites EXCEPT ![sid] =
                            IF Writable(socket[sid]) THEN <<DROP_MSG>> ELSE <<>>],
             destroy |-> {}]

\* a DROP branch that does nothing for a socket that is no longer writable
DropBranch_OnlyWritable(id) ==
    LET sid == findSessionById(id)
    IN IF id = NaN \/ sid = 0 \/ ~Writable(socket[sid]) THEN NoEffect
       ELSE [msgs |-> <<[tag |-> "DROP", id |-> id]>>,
             writes |-> [NoWrites EXCEPT ![sid] = <<DROP_MSG>>],
             destroy |-> {sid}]

\* the DROP branch, after the match and parseId
DropBranch(id) ==
    LET sid == findSessionById(id)
    IN IF id = NaN \/ sid = 0 THEN NoEffect
       ELSE [msgs |-> <<[tag |-> "DROP", id |-> id]>>,
             writes |-> [NoWrites EXCEPT ![sid] =
                            IF Writable(socket[sid]) THEN <<DROP_MSG>> ELSE <<>>],
             destroy |-> {sid}]

\* the cascade of line.match(CONFIG.COMMANDS...) of processAdminCommand: the
\* first grammar that matches, with what the branch takes from the match
Dispatch(line) ==
    IF MatchLS(line).matched
    THEN [kind |-> "LS", opt |-> MatchLS(line).g1]
    ELSE IF MatchCMD_MAC(line).matched
    THEN [kind |-> "CMD_MAC",
          macs |-> [i \in DOMAIN Split(MatchCMD_MAC(line).g1) |->
                       Trim(Split(MatchCMD_MAC(line).g1)[i])],
          cmd |-> MatchCMD_MAC(line).g2]
    ELSE IF MatchCMD_ID(line).matched
    THEN [kind |-> "CMD_ID",
          ids |-> [i \in DOMAIN Split(MatchCMD_ID(line).g1) |->
                      [idStr |-> Split(MatchCMD_ID(line).g1)[i],
                       id |-> parseId(Split(MatchCMD_ID(line).g1)[i])]],
          cmd |-> MatchCMD_ID(line).g2]
    ELSE IF MatchCMDALL(line).matched
    THEN [kind |-> "CMDALL", cmd |-> MatchCMDALL(line).g1]
    ELSE IF MatchDROP(line).matched
    THEN [kind |-> "DROP", id |-> parseId(MatchDROP(line).g1)]
    ELSE [kind |-> "NONE"]

\* line.trim() of every line of the runs
Trimmed == [line \in AllLines |-> Trim(line)]
\* Dispatch of every line of the runs, as typed and trimmed
Dispatched == [line \in AllLines \cup {Trimmed[l] : l \in AllLines} |-> Dispatch(line)]

\* a processor that reports a line it does not recognise
processAdminCommand_ReportsUnknown(line, dur) ==
    LET c == Dispatched[line]
    IN IF c.kind = "LS" THEN [NoEffect EXCEPT !.msgs = LsLoop(sessions, c.opt, dur)]
       ELSE IF c.kind = "CMD_MAC" THEN CmdMacLoop(c.macs, c.cmd, NoEffect)
       ELSE IF c.kind = "CMD_ID" THEN CmdIdLoop(c.ids, c.cmd, NoEffect)
       ELSE IF c.kind = "CMDALL" THEN CmdAllLoop(sessions, c.cmd, NoEffect)
       ELSE IF c.kind = "DROP" THEN DropBranch(c.id)
       ELSE [NoEffect EXCEPT !.msgs = <<[tag |-> "CMD_ERROR", what |-> "unknown command"]>>]

\* processAdminCommand(line): the log lines, the device writes and the
\* sockets destroyed; dur is the uptime moment() gives the sessions
processAdminCommand(line, dur) ==
    LET c == Dispatched[line]
    IN IF c.kind = "LS" THEN [NoEffect EXCEPT !.msgs = LsLoop(sessions, c.opt, dur)]
       ELSE IF c.kind = "CMD_MAC" THEN CmdMacLoop(c.macs, c.cmd, NoEffect)
       ELSE IF c.kind = "CMD_ID" THEN CmdIdLoop(c.ids, c.cmd, NoEffect)
       ELSE IF c.kind = "CMDALL" THEN CmdAllLoop(sessions, c.cmd, NoEffect)
       ELSE IF c.kind = "DROP" THEN DropBranch(c.id)
       ELSE NoEffect

\* the clock readings an ls of this line can see
UptimeChoices(line) == IF Dispatched[line].kind = "LS" THEN Uptimes ELSE {0}

\* a drop that leaves the connection open
ApplyCommand_NoDestroy(eff) ==
    UNCHANGED <<sessionIdCounter, sessions, session, socket, timer, admins, asocket,
                cleanups, notValid, handshakes>>

\* a drop that also takes the session out of the Map itself
ApplyCommand_DeletesDropped(eff) ==
    /\ socket' = [id \in DevIds |-> IF id \in eff.destroy THEN Destroyed(socket[id]) ELSE socket[id]]
    /\ sessions' = SelectSeq(sessions, LAMBDA id : id \notin eff.destroy)
    /\ UNCHANGED <<sessionIdCounter, session, timer, admins, asocket,
                   cleanups, notValid, handshakes>>

\* the state change of a command: only a drop changes anything
ApplyCommand(eff) ==
    /\ socket' = [id \in DevIds |-> IF id \in eff.destroy THEN Destroyed(socket[id]) ELSE socket[id]]
    /\ UNCHANGED <<sessionIdCounter, sessions, session, timer, admins, asocket,
                   cleanups, notValid, handshakes>>

\* ------------------------------------------------- admin connection handler
\* handleAdminConnection(socket), up to the registration of the handlers
handleAdminConnection(a) ==
    /\ asocket[a] = "none"
    /\ admins' = admins \cup {a}
    /\ asocket' = [asocket EXCEPT ![a] = "open"]
    /\ Output("handleAdminConnection", a, <<>>, admins', asocket',
              <<[tag |-> "ADMIN_CONN", admin |-> a]>>, NoWrites)
    /\ UNCHANGED <<sessionIdCounter, sessions, session, socket, timer,
                   cleanups, notValid, handshakes>>

\* a line handler that answers the admin who typed the line only
AdminLine_ReplyToIssuer(a, line) ==
    LET trimmedLine == Trimmed[line]
    IN /\ asocket[a] = "open"
       /\ IF trimmedLine = <<>>
          THEN /\ Output("line", a, line, admins, asocket, <<>>, NoWrites)
               /\ UNCHANGED <<sessionIdCounter, sessions, session, socket, timer, admins,
                              asocket, cleanups, notValid, handshakes>>
          ELSE \E up \in UptimeChoices(trimmedLine) :
                  LET eff == processAdminCommand(trimmedLine, up)
                  IN /\ Output("line", a, line, {a}, asocket,
                               <<[tag |-> "ADMIN_CMD", line |-> trimmedLine]>> \o eff.msgs,
                               eff.writes)
                     /\ ApplyCommand(eff)

\* a line handler that broadcasts the audit line after the command ran
AdminLine_AuditLast(a, line) ==
    LET trimmedLine == Trimmed[line]
    IN /\ asocket[a] = "open"
       /\ IF trimmedLine = <<>>
          THEN /\ Output("line", a, line, admins, asocket, <<>>, NoWrites)
               /\ UNCHANGED <<sessionIdCounter, sessions, session, socket, timer, admins,
                              asocket, cleanups, notValid, handshakes>>
          ELSE \E up \in UptimeChoices(trimmedLine) :
                  LET eff == processAdminCommand(trimmedLine, up)
                  IN /\ Output("line", a, line, admins, asocket,
                               eff.msgs \o <<[tag |-> "ADMIN_CMD", line |-> trimmedLine]>>,
                               eff.writes)
                     /\ ApplyCommand(eff)

\* rl.on("line") of an admin connection
AdminLine(a, line) ==
    LET trimmedLine == Trimmed[line]
    IN /\ asocket[a] = "open"
       /\ IF trimmedLine = <<>>
          THEN /\ Output("line", a, line, admins, asocket, <<>>, NoWrites)
               /\ UNCHANGED <<sessionIdCounter, sessions, session, socket, timer, admins,
                              asocket, cleanups, notValid, handshakes>>
          ELSE \E up \in UptimeChoices(trimmedLine) :
                  LET eff == processAdminCommand(trimmedLine, up)
                  IN /\ Output("line", a, line, admins, asocket,
                               <<[tag |-> "ADMIN_CMD", line |-> trimmedLine]>> \o eff.msgs,
                               eff.writes)
                     /\ ApplyCommand(eff)

\* rl.on("line") of setupCliInterface: the local console
CliLine(line) ==
    \E up \in UptimeChoices(line) :
        LET eff == processAdminCommand(line, up)
        IN /\ Output("cli", 0, line, admins, asocket, eff.msgs, eff.writes)
           /\ ApplyCommand(eff)

\* socket.on("end") of an admin connection
AdminEnd(a) ==
    /\ asocket[a] = "open"
    /\ asocket' = [asocket EXCEPT ![a] = "ended"]
    /\ Output("adminEnd", a, <<>>, admins, asocket',
              <<[tag |-> "ADMIN_END", admin |-> a]>>, NoWrites)
    /\ UNCHANGED <<sessionIdCounter, sessions, session, socket, timer, admins,
                   cleanups, notValid, handshakes>>

\* socket.on("error") of an admin connection: console.error only
AdminError(a) ==
    /\ asocket[a] \in {"open", "ended"}
    /\ asocket' = [asocket EXCEPT ![a] = "destroyed"]
    /\ Output("adminError", a, <<>>, admins, asocket', <<>>, NoWrites)
    /\ UNCHANGED <<sessionIdCounter, sessions, session, socket, timer, admins,
                   cleanups, notValid, handshakes>>

\* a close handler that forgets state.admins.delete
AdminClose_KeepsAdmin(a) ==
    /\ asocket[a] \in {"ended", "destroyed"}
    /\ asocket' = [asocket EXCEPT ![a] = "closed"]
    /\ admins' = admins
    /\ Output("adminClose", a, <<>>, admins', asocket',
              <<[tag |-> "ADMIN_CLOSE", admin |-> a]>>, NoWrites)
    /\ UNCHANGED <<sessionIdCounter, sessions, session, socket, timer,
                   cleanups, notValid, handshakes>>

\* a close handler that reports on the local console only, as the error
\* handler does
AdminClose_Silent(a) ==
    /\ asocket[a] \in {"ended", "destroyed"}
    /\ asocket' = [asocket EXCEPT ![a] = "closed"]
    /\ admins' = admins \ {a}
    /\ Output("adminClose", a, <<>>, {}, asocket',
              <<[tag |-> "ADMIN_CLOSE", admin |-> a]>>, NoWrites)
    /\ UNCHANGED <<sessionIdCounter, sessions, session, socket, timer,
                   cleanups, notValid, handshakes>>

\* socket.on("close") of an admin connection
AdminClose(a) ==
    /\ asocket[a] \in {"ended", "destroyed"}
    /\ asocket' = [asocket EXCEPT ![a] = "closed"]
    /\ admins' = admins \ {a}
    /\ Output("adminClose", a, <<>>, admins', asocket',
              <<[tag |-> "ADMIN_CLOSE", admin |-> a]>>, NoWrites)
    /\ UNCHANGED <<sessionIdCounter, sessions, session, socket, timer,
                   cleanups, notValid, handshakes>>

\* ------------------------------------------------------------ specification
Next ==
    \/ \E addr \in Addrs : handleRemoteConnection(addr)
    \/ \E id \in DevIds : validationTimeout(id)
    \/ \E id \in DevIds, chunk \in LifeChunks : DeviceData(id, chunk)
    \/ \E id \in DevIds : DeviceEnd(id)
    \/ \E id \in DevIds : DeviceError(id)
    \/ \E id \in DevIds : DeviceClose(id)
    \/ \E a \in AdminIds : handleAdminConnection(a)
    \/ \E a \in AdminIds, line \in LifeLines : AdminLine(a, line)
    \/ \E line \in LifeLines : CliLine(line)
    \/ \E a \in AdminIds : AdminEnd(a)
    \/ \E a \in AdminIds : AdminError(a)
    \/ \E a \in AdminIds : AdminClose(a)

Spec == Init /\ [][Next]_vars

\* timers fire and close events are delivered
FairSpec ==
    /\ Spec
    /\ \A id \in DevIds : WF_vars(validationTimeout(id)) /\ WF_vars(DeviceClose(id))

\* the runs that exercise the device connection handler: every device event,
\* with the commands typed at the local console
DevNext ==
    \/ \E addr \in Addrs : handleRemoteConnection(addr)
    \/ \E id \in DevIds : validationTimeout(id)
    \/ \E id \in DevIds, chunk \in LifeChunks : DeviceData(id, chunk)
    \/ \E id \in DevIds : DeviceEnd(id)
    \/ \E id \in DevIds : DeviceError(id)
    \/ \E id \in DevIds : DeviceClose(id)
    \/ \E line \in DevLines : CliLine(line)

DevSpec == Init /\ [][DevNext]_vars

DevFairSpec ==
    /\ DevSpec
    /\ \A id \in DevIds : WF_vars(validationTimeout(id)) /\ WF_vars(DeviceClose(id))

\* the runs that exercise the command grammar: devices connect, identify and
\* are closed by a drop, while the first admin sends every line of AdminLines
CmdNext ==
    \/ \E addr \in Addrs : handleRemoteConnection(addr)
    \/ \E id \in DevIds, chunk \in CmdChunks : DeviceData(id, chunk)
    \/ \E id \in DevIds : DeviceClose(id)
    \/ handleAdminConnection(1)
    \/ \E line \in AdminLines : AdminLine(1, line)

CmdSpec == Init /\ [][CmdNext]_vars

\* the lines of the runs that exercise the broadcast
BcastLines == {LN_LS, LN_CMD_1001, LN_CMD_1002, LN_DROP_1001}

\* the runs that exercise the broadcast: admins connect, type and leave while
\* devices connect and are dropped
AdminNext ==
    \/ \E addr \in Addrs : handleRemoteConnection(addr)
    \/ \E id \in DevIds : DeviceClose(id)
    \/ \E a \in AdminIds : handleAdminConnection(a)
    \/ \E a \in AdminIds, line \in BcastLines : AdminLine(a, line)
    \/ \E line \in BcastLines : CliLine(line)
    \/ \E a \in AdminIds : AdminEnd(a)
    \/ \E a \in AdminIds : AdminError(a)
    \/ \E a \in AdminIds : AdminClose(a)

AdminSpec == Init /\ [][AdminNext]_vars

\* the runs that exercise the registry: devices connect, identify, end and
\* close while every admin types ls
RegNext ==
    \/ \E addr \in Addrs : handleRemoteConnection(addr)
    \/ \E id \in DevIds : DeviceData(id, CH_MAC1)
    \/ \E id \in DevIds : DeviceEnd(id)
    \/ \E id \in DevIds : DeviceClose(id)
    \/ \E a \in AdminIds : handleAdminConnection(a)
    \/ \E a \in AdminIds : AdminLine(a, LN_LS)

RegSpec == Init /\ [][RegNext]_vars

\* the runs that exercise the letter case of the keywords
CaseNext ==
    \/ \E addr \in Addrs : handleRemoteConnection(addr)
    \/ \E id \in DevIds : DeviceData(id, CH_MAC1)
    \/ \E id \in DevIds : DeviceClose(id)
    \/ handleAdminConnection(1)
    \/ \E line \in CaseLines : AdminLine(1, line)

CaseSpec == Init /\ [][CaseNext]_vars

\* the runs that exercise the lines no grammar matches, among drops
NoMatchNext ==
    \/ \E addr \in Addrs : handleRemoteConnection(addr)
    \/ \E id \in DevIds : DeviceData(id, CH_MAC1)
    \/ \E id \in DevIds : DeviceClose(id)
    \/ \E a \in AdminIds : handleAdminConnection(a)
    \/ \E a \in AdminIds, line \in NoMatchLines \cup {LN_DROP_1001} : AdminLine(a, line)

NoMatchSpec == Init /\ [][NoMatchNext]_vars

\* the runs that exercise the telemetry: devices connect and send lines
TelNext ==
    \/ \E addr \in Addrs : handleRemoteConnection(addr)
    \/ \E id \in DevIds, chunk \in TelChunks : DeviceData(id, chunk)

TelSpec == Init /\ [][TelNext]_vars

\* the runs in which lines and chunks differ
StreamNext ==
    \/ \E addr \in Addrs : handleRemoteConnection(addr)
    \/ \E id \in DevIds, chunk \in StreamChunks : DeviceData(id, chunk)
    \/ \E id \in DevIds : DeviceEnd(id)
    \/ \E id \in DevIds : DeviceClose(id)

StreamSpec == Init /\ [][StreamNext]_vars

\* the runs that exercise the audit line of the admin line handler
AuditNext ==
    \/ \E addr \in Addrs : handleRemoteConnection(addr)
    \/ \E id \in DevIds : DeviceData(id, CH_MAC1)
    \/ \E id \in DevIds : DeviceClose(id)
    \/ \E a \in AdminIds : handleAdminConnection(a)
    \/ \E a \in AdminIds, line \in AuditLines : AdminLine(a, line)

AuditSpec == Init /\ [][AuditNext]_vars

\* the lines of the runs that exercise the time between the end of a
\* connection and its close event
WindowLines == {LN_LS, LN_CMDALL_P, LN_DROP_1001, LN_CMD_1001, LN_CMD_MAC1, LN_CMD_LIST_12}

\* the runs in which connections end in every way and commands arrive before
\* the close event
WindowNext ==
    \/ \E addr \in Addrs : handleRemoteConnection(addr)
    \/ \E id \in DevIds : validationTimeout(id)
    \/ \E id \in DevIds : DeviceData(id, CH_MAC1)
    \/ \E id \in DevIds : DeviceEnd(id)
    \/ \E id \in DevIds : DeviceClose(id)
    \/ handleAdminConnection(1)
    \/ \E line \in WindowLines : AdminLine(1, line)

WindowSpec == Init /\ [][WindowNext]_vars

\* the runs in which devices send telemetry lines before any line that is a MAC
IdentNext ==
    \/ \E addr \in Addrs : handleRemoteConnection(addr)
    \/ \E id \in DevIds : validationTimeout(id)
    \/ \E id \in DevIds, chunk \in IdentChunks : DeviceData(id, chunk)
    \/ \E id \in DevIds : DeviceClose(id)

IdentSpec == Init /\ [][IdentNext]_vars

\* close events are delivered
CmdFairSpec == CmdSpec /\ \A id \in DevIds : WF_vars(DeviceClose(id))

TypeOK ==
    /\ sessionIdCounter \in SessionIdStart..(SessionIdStart + MaxDev)
    /\ \A i \in 1..Len(sessions) : sessions[i] \in DevIds
    /\ \A id \in DevIds : socket[id] \in {"none", "open", "ended", "destroyed", "closed"}
    /\ \A id \in DevIds : timer[id] \in {"none", "armed", "fired", "cleared"}
    /\ admins \subseteq AdminIds

\* ------------------------------------------------------------------ claims
\* the step was made by the handler op of connection who
Ran(op, who) == last'.op = op /\ last'.who = who
\* the step was the command line typed by an admin or at the local console
Typed(line) == last'.op \in {"line", "cli"} /\ last'.arg = line
\* the lines the command of the step broadcast, after the audit line
Outcome == IF last'.op = "line" THEN Tail(console') ELSE console'
\* the ids for which a session object was ever created
Assigned == {id \in DevIds : session[id].status # "none"}
Max(S) == CHOOSE x \in S : \A y \in S : y <= x
\* the number of entries of seq with the given tag and id
RECURSIVE CountTag(_, _, _)
CountTag(seq, tag, id) ==
    IF seq = <<>> THEN 0
    ELSE (IF Head(seq).tag = tag /\ Head(seq).id = id THEN 1 ELSE 0)
         + CountTag(Tail(seq), tag, id)

C2_CleanupOnce ==
    /\ [][\A id \in DevIds :
            /\ cleanups'[id] <= 1
            /\ cleanups'[id] >= cleanups[id]
            /\ CountTag(console', "CLOSE", id) = cleanups'[id] - cleanups[id]
            /\ (session'[id].status = "close") = (cleanups'[id] = 1)
            /\ (\E i \in 1..Len(sessions') : sessions'[i] = id)
                  = (session'[id].status = "connect")
            /\ (socket'[id] = "closed") = (cleanups'[id] = 1)]_vars
    /\ \A id \in DevIds : (socket[id] \in {"ended", "destroyed"}) ~> (cleanups[id] = 1)

\* C2 witness: a connection that the validation timer closed has been cleaned up
C2_Witness ==
    /\ last.op = "close"
    /\ notValid[last.who] = 1
    /\ cleanups[last.who] = 1
    /\ session[last.who].status = "close"
    /\ ~InRegistry(last.who)

\* C3: once the first MAC-bearing line has set mac and token, no later line
\* of that device changes them.
C3_MacSetOnce ==
    [][\A id \in DevIds :
          (session[id].status # "none" /\ session[id].mac # NA) =>
             /\ session'[id].mac = session[id].mac
             /\ session'[id].token = session[id].token]_vars

\* C3 witness: a session identified as MAC1 has since received the line
\* WIFI_MAC=<MAC3>, which carries another MAC
C3_Witness ==
    /\ last.op = "data"
    /\ last.arg = CH_WIFI
    /\ session[last.who].mac = MAC1
    /\ session[last.who].token = RemoveColons(MAC1)
    /\ session[last.who].wifiMac = MAC3

\* C4: when the validation timer expires on a session whose mac is still NA,
\* [DEV NOT VALID] is broadcast and the connection is force-closed, and the
\* session is eventually removed from the registry; an unidentified session
\* does not stay in the registry for ever.
C4_ValidationTimeout ==
    /\ [][\A id \in DevIds :
            (Ran("validationTimeout", id) /\ session[id].mac = NA) =>
               /\ console' = <<[tag |-> "DEV_NOT_VALID", addr |-> session[id].addr, mac |-> NA]>>
               /\ socket'[id] = "destroyed"]_vars
    /\ \A id \in DevIds : (notValid[id] = 1) ~> (socket[id] = "closed" /\ ~InRegistry(id))
    /\ \A id \in DevIds :
          (InRegistry(id) /\ session[id].mac = NA) ~> (~InRegistry(id) \/ session[id].mac # NA)

\* C4 witness: a session that never identified was reported, closed and removed
C4_Witness ==
    \E id \in DevIds :
        /\ notValid[id] = 1
        /\ session[id].mac = NA
        /\ socket[id] = "closed"
        /\ ~InRegistry(id)

\* the chunks whose line contains a MAC
MacChunks == {CH_MAC1, CH_MAC2, CH_WIFI}

\* C5: a device that sends a MAC line while unidentified is written "SYS \n"
\* then "SYS DBG \n", once per session and at no other moment, and from then
\* on no [DEV NOT VALID] is broadcast for it and the validation timer does not
\* close it.
C5_Handshake ==
    [][\A id \in DevIds :
          /\ (Ran("data", id) /\ last'.arg \in MacChunks /\ session[id].mac = NA) =>
                /\ devRecv'[id] = <<SYS_LINE, SYS_DBG_LINE>>
                /\ handshakes'[id] = 1
          /\ ~(Ran("data", id) /\ last'.arg \in MacChunks /\ session[id].mac = NA) =>
                /\ \A i \in 1..Len(devRecv'[id]) : devRecv'[id][i] \notin {SYS_LINE, SYS_DBG_LINE}
                /\ handshakes'[id] = handshakes[id]
          /\ (session[id].status # "none" /\ session[id].mac # NA) =>
                /\ notValid'[id] = 0
                /\ Ran("validationTimeout", id) => (socket'[id] = socket[id] /\ devRecv'[id] = <<>>)]_vars

\* C5 witness: a device identified itself and was written the handshake
C5_Witness ==
    /\ last.op = "data"
    /\ last.arg = CH_MAC1
    /\ session[last.who].mac = MAC1
    /\ devRecv[last.who] = <<SYS_LINE, SYS_DBG_LINE>>
    /\ timer[last.who] = "cleared"

\* the ids of the lines of the outcome, in order
OutcomeIds == [i \in DOMAIN Outcome |-> Outcome[i].id]

\* C6: ls without a filter broadcasts exactly one [SESS] line for each session
\* in the registry and none for any other, oldest session first.
C6_LsAll ==
    [][Typed(LN_LS) =>
          /\ OutcomeIds = sessions
          /\ \A i, j \in DOMAIN Outcome : i < j => Outcome[i].id < Outcome[j].id
          /\ \E dur \in Uptimes :
                \A i \in DOMAIN Outcome :
                    /\ Outcome[i].tag = "SESS"
                    /\ Outcome[i].text = SessLine(session[sessions[i]], dur)]_vars

\* C6 witness: an ls listed two sessions
C6_Witness ==
    /\ last.op = "line"
    /\ last.arg = LN_LS
    /\ Len(sessions) = 2
    /\ Len(console) = 3
    /\ console[2].tag = "SESS" /\ console[2].id = 1001
    /\ console[3].tag = "SESS" /\ console[3].id = 1002

\* the filtered ls lines of the runs, each with its substring
FilterLines ==
    {<<LN_LS_TOKEN, <<"A","A","B","B">>>>,
     <<LN_LS_TRACE, <<"t","r","a","c","e">>>>,
     <<LN_LS_ID, <<"[","1","0","0","2","]">>>>}

\* C7: ls <substring> broadcasts the [SESS] line of exactly those sessions of
\* the registry whose formatted line contains the substring: each such session
\* once, and no session whose line does not contain it.
C7_LsFilter ==
    [][\A f \in FilterLines :
          Typed(f[1]) =>
             \E dur \in Uptimes :
                /\ \A i \in DOMAIN Outcome :
                      /\ Outcome[i].tag = "SESS"
                      /\ InRegistry(Outcome[i].id)
                      /\ Outcome[i].text = SessLine(session[Outcome[i].id], dur)
                      /\ Contains(Outcome[i].text, f[2])
                /\ \A i \in DOMAIN sessions :
                      Contains(SessLine(session[sessions[i]], dur), f[2]) =>
                         Cardinality({k \in DOMAIN Outcome : Outcome[k].id = sessions[i]}) = 1]_vars

\* C7 witness: of two sessions, ls AABB listed only the one whose token is
\* AABBCCDDEEFF
C7_Witness ==
    /\ last.op = "line"
    /\ last.arg = LN_LS_TOKEN
    /\ sessions = <<1001, 1002>>
    /\ session[1001].token = RemoveColons(MAC1)
    /\ session[1002].token = MAC2
    /\ Len(console) = 2
    /\ console[2].tag = "SESS" /\ console[2].id = 1002

\* what cmd <numeral> P has to do when the numeral stands for id: write P to
\* the session with that id, or report that there is none or that it is not
\* writable
CmdReaches(id) ==
    IF id \in DevIds /\ InRegistry(id) /\ Writable(socket[id])
    THEN /\ Outcome = <<[tag |-> "CMD", cmd |-> PAYLOAD_P]>>
         /\ devRecv' = [NoWrites EXCEPT ![id] = <<PAYLOAD_P \o NL>>]
    ELSE IF id \in DevIds /\ InRegistry(id)
    THEN /\ Outcome = <<[tag |-> "CMD_ERROR", what |-> "id not writable", id |-> id]>>
         /\ devRecv' = NoWrites
    ELSE /\ Outcome = <<[tag |-> "CMD_ERROR", what |-> "id not found", id |-> id]>>
         /\ devRecv' = NoWrites

\* the cmd lines of the runs with one numeral, each with the id it stands for
NumeralLines ==
    {<<LN_CMD_3E8, 1000>>, <<LN_CMD_1000, 1000>>, <<LN_CMD_3E9, 1001>>,
     <<LN_CMD_1001, 1001>>, <<LN_CMD_3ea, 1002>>, <<LN_CMD_1002, 1002>>}

\* C8: a numeral of decimal digits only is read in base 10 and a numeral with
\* a letter A-F or a-f in base 16: cmd 3E8 P and cmd 1000 P address id 1000,
\* cmd 3E9 P and cmd 1001 P session 1001, cmd 3ea P and cmd 1002 P session 1002.
C8_NumeralBase ==
    [][\A n \in NumeralLines : Typed(n[1]) => CmdReaches(n[2])]_vars

\* C8 witness: cmd 3E9 P wrote P to session 1001
C8_Witness ==
    /\ last.op = "line"
    /\ last.arg = LN_CMD_3E9
    /\ console[2] = [tag |-> "CMD", cmd |-> PAYLOAD_P]
    /\ devRecv[1001] = <<PAYLOAD_P \o NL>>

\* C9: an id written with the prefix 0x is accepted by cmd and by drop: with
\* session 1001 in the registry, cmd 0x3E9 P does what cmd 1001 P does and
\* drop 0x3E9 closes the session as drop 1001 does.
C9_HexPrefix ==
    [][/\ (Typed(LN_CMD_0x3E9) /\ InRegistry(1001)) => CmdReaches(1001)
       /\ (Typed(LN_DROP_0x3E9) /\ InRegistry(1001)) =>
             /\ Outcome = <<[tag |-> "DROP", id |-> 1001]>>
             /\ socket'[1001] = "destroyed"]_vars

\* C10: in a cmd list that mixes ids and MAC addresses every element is
\* resolved on its own: cmd 1001,AABBCCDDEEFF P writes P to session 1001 and
\* to the session whose mac is AABBCCDDEEFF.
C10_MixedTargets ==
    [][Typed(LN_CMD_MIXED) =>
          /\ (InRegistry(1001) /\ Writable(socket[1001])) =>
                \E i \in DOMAIN devRecv'[1001] : devRecv'[1001][i] = PAYLOAD_P \o NL
          /\ \A m \in DevIds \ {1001} :
                (InRegistry(m) /\ session[m].mac = MAC2 /\ Writable(socket[m])
                   /\ findSessionByMac(MAC2) = m) =>
                   \E i \in DOMAIN devRecv'[m] : devRecv'[m][i] = PAYLOAD_P \o NL]_vars

\* the cmd lines of the runs with one MAC target, each with the form in which
\* the device with that address reports it
MacForms ==
    {<<LN_CMD_MAC1, MAC1>>, <<LN_CMD_MAC1_BARE, MAC1>>, <<LN_CMD_MAC1_DASH, MAC1>>,
     <<LN_CMD_MAC2, MAC2>>, <<LN_CMD_MAC2_COLON, MAC2>>}

\* C11: a cmd MAC target reaches the session of the device with that address
\* whether the admin writes it with colons, bare or with dashes, and whatever
\* form the device reported it in: with a writable session in the registry
\* for 8C:4F:00:A5:5C:7C (reported with colons) or AABBCCDDEEFF (reported
\* bare), every spelling of the address in a cmd writes the payload to it.
C11_MacForms ==
    [][\A f \in MacForms :
          (Typed(f[1]) /\ findSessionByMac(f[2]) # 0 /\ Writable(socket[findSessionByMac(f[2])])) =>
             devRecv'[findSessionByMac(f[2])] = <<PAYLOAD_P \o NL>>]_vars

\* the cmd lines of the runs with a list of MAC targets, each with its list
MacListLines ==
    {<<LN_CMD_LIST_12, <<MAC1, MAC2>>>>, <<LN_CMD_LIST_31, <<MAC3, MAC1>>>>,
     <<LN_CMD_LIST_132, <<MAC1, MAC3, MAC2>>>>, <<LN_CMD_LIST_13, <<MAC2, MAC3>>>>}

MalformedLines == {LN_CMD_EMPTY_EL, LN_CMD_NONHEX}

\* C13: a malformed element in the target list of a cmd is reported by a
\* [CMD ERROR] of its own and the payload is still delivered to the
\* well-formed targets: with session 1001 writable, cmd 1001,,1002 P and
\* cmd 1001,zz P both write P to 1001 and broadcast an error for the bad
\* element.
C13_MalformedTarget ==
    [][\A line \in MalformedLines :
          (Typed(line) /\ InRegistry(1001) /\ Writable(socket[1001])) =>
             /\ devRecv'[1001] = <<PAYLOAD_P \o NL>>
             /\ \E i \in DOMAIN Outcome :
                   Outcome[i].tag = "CMD_ERROR" /\ Outcome[i].what = "invalid id format"]_vars

\* the cmdall lines of the runs, each with its payload
CmdAllLines == {<<LN_CMDALL, <<"X">>>>, <<LN_CMDALL_P, PAYLOAD_P>>}
\* the sessions of the registry that are writable, oldest first
RECURSIVE WritableOf(_)
WritableOf(seq) ==
    IF seq = <<>> THEN <<>>
    ELSE (IF Writable(socket[Head(seq)]) THEN <<Head(seq)>> ELSE <<>>) \o WritableOf(Tail(seq))

\* C14: cmdall X writes X\n exactly once to every session that is in the
\* registry and writable when the command runs, with one [CMD] line for each,
\* and writes nothing to any other session; the connection handler of a
\* session accepted later writes nothing to it, so it never gets the payload.
C14_CmdAll ==
    [][/\ \A f \in CmdAllLines :
            Typed(f[1]) =>
               /\ \A id \in DevIds :
                     devRecv'[id] = IF InRegistry(id) /\ Writable(socket[id])
                                    THEN <<f[2] \o NL>> ELSE <<>>
               /\ Outcome = [i \in DOMAIN WritableOf(sessions) |->
                                [tag |-> "CMD", id |-> WritableOf(sessions)[i],
                                 addr |-> session[WritableOf(sessions)[i]].addr, cmd |-> f[2]]]
       /\ \A id \in DevIds : Ran("handleRemoteConnection", id) => devRecv' = NoWrites]_vars

\* C14 witness: cmdall X reached the writable session 1002 and not session
\* 1001, which is still in the registry with its connection destroyed
C14_Witness ==
    /\ last.op = "line"
    /\ last.arg = LN_CMDALL
    /\ sessions = <<1001, 1002>>
    /\ socket[1001] = "destroyed"
    /\ socket[1002] = "open"
    /\ devRecv = [NoWrites EXCEPT ![1002] = <<<<"X", "\n">>>>]
    /\ Len(console) = 2

\* the drop lines of the runs, each with the id it names
DropLines == {<<LN_DROP_1001, 1001>>, <<LN_DROP_3E9, 1001>>, <<LN_DROP_2000, 2000>>}

\* C15: drop <id> with an id that names no session of the registry (never
\* assigned, or closed and removed) broadcasts nothing from the command
\* processor, writes to no device and leaves the registry, every session and
\* every connection as they were.
C15_DropUnknown ==
    [][\A f \in DropLines :
          (Typed(f[1]) /\ ~InRegistry(f[2])) =>
             /\ Outcome = <<>>
             /\ devRecv' = NoWrites
             /\ UNCHANGED <<sessionIdCounter, sessions, session, socket, timer, admins, asocket>>]_vars

\* C15 witness: drop 1001 was typed after session 1001 had closed, with
\* session 1002 connected; only the audit line was broadcast
C15_Witness ==
    /\ last.op = "line"
    /\ last.arg = LN_DROP_1001
    /\ session[1001].status = "close"
    /\ sessions = <<1002>>
    /\ socket[1002] = "open"
    /\ console = <<[tag |-> "ADMIN_CMD", line |-> LN_DROP_1001]>>
    /\ devRecv = NoWrites

\* C16 as stated: once a session was dropped (in the runs of the command
\* grammar a connection is destroyed by a drop only), no ls lists it any more.
C16_DropThenLs ==
    [][\A id \in DevIds :
          (Typed(LN_LS) /\ socket[id] \in {"destroyed", "closed"}) =>
             \A i \in DOMAIN Outcome : Outcome[i].id # id]_vars

\* C16, amended: drop <id> of a session in the registry broadcasts [DROP] and
\* destroys its connection (after the notice to the device when it is still
\* writable); the session is then eventually removed from the registry, by
\* the close handler, and no ls executed after that removal lists it. An ls
\* between the drop and the close event still lists the session.
C16_Drop ==
    /\ [][\A f \in DropLines :
            (Typed(f[1]) /\ InRegistry(f[2])) =>
               /\ Outcome = <<[tag |-> "DROP", id |-> f[2]]>>
               /\ socket'[f[2]] = "destroyed"
               /\ devRecv' = [NoWrites EXCEPT ![f[2]] =
                                 IF Writable(socket[f[2]]) THEN <<DROP_MSG>> ELSE <<>>]
               /\ InRegistry(f[2])']_vars
    /\ \A id \in DevIds : (socket[id] = "destroyed") ~> (socket[id] = "closed" /\ ~InRegistry(id))
    /\ [][\A id \in DevIds :
            (Typed(LN_LS) /\ socket[id] = "closed") =>
               \A i \in DOMAIN Outcome : Outcome[i].id # id]_vars

\* C16 witness: session 1001 was dropped and has closed; the ls typed after
\* that lists session 1002 only
C16_Witness ==
    /\ last.op = "line"
    /\ last.arg = LN_LS
    /\ socket[1001] = "closed"
    /\ cleanups[1001] = 1
    /\ sessions = <<1002>>
    /\ Len(console) = 2
    /\ console[2].tag = "SESS" /\ console[2].id = 1002

\* the connection of session id is open and the handler that ran last was
\* not its data handler: no data is arriving on it
Idle(id) == InRegistry(id) /\ socket[id] = "open" /\ ~(last.op = "data" /\ last.who = id)

\* C17: a device connection, identified or not, on which no more data
\* arrives is eventually closed by the server and its session removed from
\* the registry (timers fire and close events are delivered).
C17_IdleTimeout ==
    \A id \in DevIds :
        Idle(id) ~> (~InRegistry(id) \/ (last.op = "data" /\ last.who = id))

\* C18: a silent connection of an identified device is closed by the idle
\* timeout with exactly one [TIMEOUT] line and exactly one [CLOSE] line for
\* its session: unless data arrives or something else closes the connection
\* first, the [TIMEOUT] line is eventually broadcast; no handler broadcasts
\* two of them, and the close handler runs at most once.
C18_TimeoutOnce ==
    /\ [][\A id \in DevIds :
            /\ CountTag(console', "TIMEOUT", id) <= 1
            /\ CountTag(console', "CLOSE", id) <= 1
            /\ cleanups'[id] <= 1]_vars
    /\ \A id \in DevIds :
          (Idle(id) /\ session[id].mac # NA)
             ~> \/ last.op = "data" /\ last.who = id
                \/ CountTag(console, "TIMEOUT", id) = 1
                \/ cleanups[id] = 1

\* C19: every line a handler logs goes to local output and to every
\* registered admin whose socket is writable, whatever the state of the other
\* admins' sockets; an admin whose socket is not writable receives nothing.
C19_BestEffort ==
    \A a \in AdminIds :
        adminRecv[a] = IF a \in admins /\ Writable(asocket[a]) THEN console ELSE <<>>

\* C19 witness: a line was logged while admin 1 was registered with a socket
\* that had ended; admin 2 received it
C19_Witness ==
    /\ admins = {1, 2}
    /\ asocket[1] = "ended"
    /\ asocket[2] = "open"
    /\ console # <<>>
    /\ adminRecv[1] = <<>>
    /\ adminRecv[2] = console

\* the tags of the lines a command of an admin can produce
OutcomeTags == {"ADMIN_CMD", "SESS", "CMD", "CMD_ERROR", "DROP"}

\* C20: the audit line and every outcome line of a command typed by an admin
\* are written, in order, to every admin that is registered and writable at
\* that moment, the admin who typed it included; no admin gets a part of them
\* or lines of its own.
C20_AllSeeAll ==
    [][\A a \in AdminIds : \A line \in BcastLines :
          (Ran("line", a) /\ last'.arg = line) =>
             /\ console'[1] = [tag |-> "ADMIN_CMD", line |-> line]
             /\ \A i \in DOMAIN console' : console'[i].tag \in OutcomeTags
             /\ adminRecv'[a] = console'
             /\ \A b \in AdminIds :
                   (b \in admins /\ Writable(asocket[b])) => adminRecv'[b] = console']_vars

\* C20 witness: admin 1 typed cmd 1001 P with admin 2 connected; both got the
\* audit line and the [CMD] line
C20_Witness ==
    /\ last = [op |-> "line", who |-> 1, arg |-> LN_CMD_1001]
    /\ admins = {1, 2}
    /\ asocket[2] = "open"
    /\ console = <<[tag |-> "ADMIN_CMD", line |-> LN_CMD_1001], [tag |-> "CMD", cmd |-> PAYLOAD_P]>>
    /\ adminRecv[1] = console
    /\ adminRecv[2] = console

\* C21: an admin connection is in state.admins exactly from its accept until
\* its close event has been handled: it is added by handleAdminConnection
\* only, once, removed by the close handler only, once, and never added again.
C21_AdminMembership ==
    /\ [](\A a \in AdminIds : (a \in admins) = (asocket[a] \in {"open", "ended", "destroyed"}))
    /\ [][\A a \in AdminIds :
            /\ (a \notin admins /\ a \in admins') =>
                  (Ran("handleAdminConnection", a) /\ asocket[a] = "none")
            /\ (a \in admins /\ a \notin admins') =>
                  (Ran("adminClose", a) /\ asocket'[a] = "closed")
            /\ Ran("handleAdminConnection", a) => (a \notin admins /\ a \in admins')
            /\ Ran("adminClose", a) => (a \in admins /\ a \notin admins')
            /\ asocket[a] = "closed" => (asocket'[a] = "closed" /\ a \notin admins')]_vars

\* C21 witness: admin 1 was accepted, ended and closed, and is out of the
\* set, while admin 2 is still in it
C21_Witness ==
    /\ last = [op |-> "adminClose", who |-> 1, arg |-> <<>>]
    /\ asocket[1] = "closed"
    /\ asocket[2] = "open"
    /\ admins = {2}

\* C22: however device connects, data, ends and closes interleave with the
\* ls of several admins, the keys of the registry are exactly the ids of the
\* connections accepted and not yet close-processed, each once and with the
\* session object of that id; and an ls lists exactly the registry of the
\* state it runs in, all lines from that one state, and leaves it unchanged.
C22_RegistryConsistent ==
    /\ [](/\ \A id \in DevIds : InRegistry(id) = (socket[id] \in {"open", "ended", "destroyed"})
          /\ \A i, j \in DOMAIN sessions : i # j => sessions[i] # sessions[j]
          /\ \A i \in DOMAIN sessions :
                session[sessions[i]].id = sessions[i] /\ session[sessions[i]].status = "connect"
          /\ \A id \in DevIds : socket[id] = "closed" => ~InRegistry(id))
    /\ [][Typed(LN_LS) =>
            /\ OutcomeIds = sessions
            /\ \E dur \in Uptimes :
                  \A i \in DOMAIN Outcome : Outcome[i].text = SessLine(session[sessions[i]], dur)
            /\ UNCHANGED <<sessions, session, socket>>]_vars

\* C22 witness: the second admin typed ls after connection 1001 had closed
\* and 1002 had identified; it saw session 1002 only
C22_Witness ==
    /\ last = [op |-> "line", who |-> 2, arg |-> LN_LS]
    /\ socket[1001] = "closed"
    /\ sessions = <<1002>>
    /\ session[1002].mac = MAC1
    /\ Len(console) = 2
    /\ console[2].id = 1002

\* the lines of the runs whose keyword is not in lower case, each with the
\* line that differs from it in the case of the keyword only
CasePairs ==
    {<<LN_LS_UP, LN_LS>>, <<LN_LS_MIX, LN_LS>>,
     <<LN_CMD_UP, LN_CMD_1001>>, <<LN_CMD_MIX, LN_CMD_1001>>,
     <<LN_CMDALL_UP, LN_CMDALL_P>>, <<LN_CMDALL_MIX, LN_CMDALL_P>>,
     <<LN_DROP_UP, LN_DROP_1001>>, <<LN_DROP_MIX, LN_DROP_1001>>}

\* C23: a command typed with its keyword in upper or mixed case does what the
\* same line with the keyword in lower case does in that state: the same
\* broadcasts after the audit line, the same device writes, the same
\* connections destroyed, and the registry untouched.
C23_KeywordCase ==
    [][\A f \in CasePairs :
          Typed(f[1]) =>
             /\ Dispatched[f[1]].kind = Dispatched[f[2]].kind
             /\ Dispatched[f[1]].kind # "NONE"
             /\ \E dur \in UptimeChoices(f[2]) :
                   LET eff == processAdminCommand(f[2], dur)
                   IN /\ Outcome = eff.msgs
                      /\ devRecv' = eff.writes
                      /\ socket' = [id \in DevIds |->
                                      IF id \in eff.destroy THEN Destroyed(socket[id])
                                      ELSE socket[id]]
             /\ UNCHANGED <<sessions, session, sessionIdCounter>>]_vars

\* C23 witness: DROP 1001 destroyed the connection of session 1001 and
\* broadcast [DROP]
C23_Witness ==
    /\ last = [op |-> "line", who |-> 1, arg |-> LN_DROP_UP]
    /\ console = <<[tag |-> "ADMIN_CMD", line |-> LN_DROP_UP], [tag |-> "DROP", id |-> 1001]>>
    /\ socket[1001] = "destroyed"
    /\ devRecv[1001] = <<DROP_MSG>>

\* the identity and telemetry fields of a session
SentinelFields == {"token", "mac", "trace", "fwVer", "bleMac", "wifiMac", "wlanFwVer"}
\* the chunks of the runs whose line sets the field
ChunksSetting(field) ==
    IF field \in {"token", "mac"} THEN MacChunks
    ELSE IF field = "wifiMac" THEN {CH_WIFI}
    ELSE IF field = "fwVer" THEN {CH_FW}
    ELSE {}

\* C24: a newly created session has status connect and "NA" in token, mac,
\* trace, fwVer, bleMac, wifiMac and wlanFwVer, and each of these fields
\* stays "NA" until a line that matches the field arrives.
C24_Defaults ==
    [][\A id \in DevIds :
          /\ Ran("handleRemoteConnection", id) =>
                /\ session'[id].status = "connect"
                /\ \A f \in SentinelFields : session'[id][f] = NA
          /\ \A f \in SentinelFields :
                (session[id].status # "none" /\ session[id][f] = NA /\ session'[id][f] # NA) =>
                   (Ran("data", id) /\ last'.arg \in ChunksSetting(f))]_vars

\* C25: an admin line that is no ls, cmd, cmdall or drop command
\* (invalid_command_xyz, cmd 1001 without a payload, drop xyz, cmdall alone,
\* cmd 0x3E9 P, cmd 1001,zz P) makes the command processor do nothing: no
\* broadcast after the audit line, no device write, no connection closed, and
\* the registry, the sessions, the admin set and the id counter unchanged.
C25_NoMatchNoop ==
    [][\A line \in NoMatchLines :
          Typed(line) =>
             /\ Outcome = <<>>
             /\ devRecv' = NoWrites
             /\ UNCHANGED <<sessionIdCounter, sessions, session, socket, timer, admins, asocket>>]_vars

\* C25 witness: invalid_command_xyz was typed while session 1001 was
\* connected; only the audit line was broadcast
C25_Witness ==
    /\ last.op = "line"
    /\ last.arg = LN_INVALID
    /\ sessions = <<1001>>
    /\ socket[1001] = "open"
    /\ console = <<[tag |-> "ADMIN_CMD", line |-> LN_INVALID]>>
    /\ devRecv = NoWrites

\* the values the telemetry chunks of the runs carry
VAL_V3 == <<"v","3">>
VAL_T1 == <<"t","1">>
VAL_T2 == <<"t","2">>
VAL_BLE == <<"b","1"," ","W","L","A","N","_","V","E","R","S","I","O","N","=","w","1">>
VAL_W1 == <<"w","1">>
\* the telemetry fields of a session
TelFields == {"trace", "fwVer", "bleMac", "wifiMac", "wlanFwVer"}
\* the fields the line of each chunk matches, with the text after the "="
TelExpect(chunk) ==
    IF chunk = CH_MAC_FW THEN [fwVer |-> VAL_V3]
    ELSE IF chunk = CH_TRACE1 THEN [trace |-> VAL_T1]
    ELSE IF chunk = CH_TRACE2 THEN [trace |-> VAL_T2]
    ELSE IF chunk = CH_BLE_WLAN THEN [bleMac |-> VAL_BLE, wlanFwVer |-> VAL_W1]
    ELSE <<>>

\* C26: whatever the identification state of the session, each device line
\* sets every telemetry field whose pattern it matches to the text it
\* carries, replacing an earlier value, and leaves the other telemetry fields
\* as they were.
C26_Telemetry ==
    [][\A id \in DevIds : \A chunk \in TelChunks :
          (Ran("data", id) /\ last'.arg = chunk) =>
             \A f \in TelFields :
                session'[id][f] = IF f \in DOMAIN TelExpect(chunk) THEN TelExpect(chunk)[f]
                                  ELSE session[id][f]]_vars

\* C26 witness: a session that is not identified and had sent TRACE=t1 and
\* BLE_MAC=b1 WLAN_VERSION=w1 has now sent TRACE=t2
C26_Witness ==
    /\ last.op = "data"
    /\ last.arg = CH_TRACE2
    /\ session[last.who].mac = NA
    /\ session[last.who].trace = VAL_T2
    /\ session[last.who].bleMac = VAL_BLE
    /\ session[last.who].wlanFwVer = VAL_W1
    /\ session[last.who].fwVer = NA

\* a session took FIRMWARE_VERSION=v3 from its identifying line
C26_OnIdentifyingLine ==
    /\ last.op = "data"
    /\ last.arg = CH_MAC_FW
    /\ devRecv[last.who] = Handshake
    /\ session[last.who].mac = MAC1
    /\ session[last.who].fwVer = VAL_V3

\* the step was the validation timer of id and did something: a broadcast,
\* a device write or a change of the socket
TimerActs(id) ==
    /\ Ran("validationTimeout", id)
    /\ \/ console' # <<>>
       \/ devRecv' # NoWrites
       \/ socket'[id] # socket[id]
       \/ notValid'[id] # notValid[id]

\* C27: the validation timer does nothing for a session that is identified
\* or that left the registry, and it never fires for a connection whose close
\* handler has run.
C27_TimerHarmless ==
    [][\A id \in Assigned :
          /\ (session[id].mac # NA \/ ~InRegistry(id)) => ~TimerActs(id)
          /\ cleanups[id] > 0 => ~Ran("validationTimeout", id)]_vars

\* C27 witness: the first session identified itself and the second one was
\* closed unidentified, both before their timers fired; neither was reported
C27_Witness ==
    /\ session[1001].mac = MAC1
    /\ socket[1001] = "open"
    /\ timer[1001] = "cleared"
    /\ session[1002].mac = NA
    /\ socket[1002] = "closed"
    /\ ~InRegistry(1002)
    /\ cleanups[1002] = 1
    /\ timer[1002] = "cleared"
    /\ notValid = [id \in DevIds |-> 0]

\* the newline-terminated lines of a text, trimmed, without the empty ones
RECURSIVE LinesOf(_)
LinesOf(text) ==
    IF \A i \in 1..Len(text) : text[i] # "\n"
    THEN IF Trim(text) = <<>> THEN <<>> ELSE <<Trim(text)>>
    ELSE LET k == CHOOSE i \in 1..Len(text) : text[i] = "\n" /\ \A j \in 1..(i - 1) : text[j] # "\n"
             first == Trim(SubSeq(text, 1, k - 1))
         IN (IF first = <<>> THEN <<>> ELSE <<first>>) \o LinesOf(From(text, k + 1))
\* the echoes among the lines a handler broadcast
Echoes(seq) == SelectSeq(seq, LAMBDA m : m.tag = "MSG_LINE")

\* C28: the lines of a chunk are echoed and scanned one by one: a chunk of
\* two lines gives two echoes and its TRACE= line sets trace, and a TRACE=
\* line that arrives in two chunks sets trace when its end arrives.
C28_LineByLine ==
    [][\A id \in DevIds :
          Ran("data", id) =>
             /\ last'.arg = CH_TWO_LINES =>
                   /\ Len(Echoes(console')) = Len(LinesOf(CH_TWO_LINES))
                   /\ session'[id].trace = VAL_T1
             /\ (last'.arg = CH_CE /\ last.op = "data" /\ last.who = id /\ last.arg = CH_TRA) =>
                   session'[id].trace = VAL_T1]_vars

\* C29: a line of an admin connection that is not empty after trimming is
\* broadcast first, trimmed, as the audit line, and every outcome of the
\* command follows it; a line that is empty or white space only produces no
\* broadcast, no device write and no change of the state.
C29_AuditFirst ==
    [][\A line \in AuditLines :
          (last'.op = "line" /\ last'.arg = line) =>
             IF Trim(line) = <<>>
             THEN /\ console' = <<>>
                  /\ devRecv' = NoWrites
                  /\ UNCHANGED <<sessionIdCounter, sessions, session, socket, timer,
                                 admins, asocket>>
             ELSE /\ console' # <<>>
                  /\ console'[1] = [tag |-> "ADMIN_CMD", line |-> Trim(line)]
                  /\ \A i \in 2..Len(console') : console'[i].tag # "ADMIN_CMD"]_vars

\* C29 witness: an admin typed "  ls \t" while a session was registered: the
\* audit line carries "ls" and the listing follows it
C29_Witness ==
    /\ last.op = "line"
    /\ last.arg = LN_LS_PAD
    /\ Len(console) >= 2
    /\ console[1] = [tag |-> "ADMIN_CMD", line |-> LN_LS]
    /\ console[2].tag # "ADMIN_CMD"
    /\ adminRecv[last.who] = console

\* an admin typed a line of one space while a session was registered
C29_BlankLine ==
    /\ last.op = "line"
    /\ last.arg = LN_BLANK
    /\ sessions # <<>>
    /\ console = <<>>

\* C30: a chunk that is not empty after trimming is echoed first, as one
\* [MGS LINE] with the id of the session and the token the session had when
\* the chunk arrived; on the line that identifies the session the echo has
\* the token "NA" and the [MAC] line follows it.
C30_EchoFirst ==
    [][\A id \in DevIds : \A chunk \in LifeChunks :
          (Ran("data", id) /\ last'.arg = chunk /\ Trim(chunk) # <<>>) =>
             /\ console' # <<>>
             /\ console'[1] = [tag |-> "MSG_LINE", id |-> id, token |-> session[id].token,
                               line |-> Trim(chunk)]
             /\ \A i \in 2..Len(console') : console'[i].tag # "MSG_LINE"
             /\ (session[id].mac = NA /\ session'[id].mac # NA) =>
                   /\ console'[1].token = NA
                   /\ Len(console') = 2
                   /\ console'[2].tag = "MAC"]_vars

\* C30 witness: the second session sent its MAC: the echo has its id and
\* the token "NA", the [MAC] line is second, and the token is now set
C30_Witness ==
    /\ last.op = "data"
    /\ last.who = 1002
    /\ last.arg = CH_MAC1
    /\ Len(console) = 2
    /\ console[1].tag = "MSG_LINE"
    /\ console[1].id = 1002
    /\ console[1].token = NA
    /\ console[2].tag = "MAC"
    /\ session[1002].token = RemoveColons(MAC1)

\* the texts of the server itself that the claim knows of
ServerTexts == {SYS_LINE, SYS_DBG_LINE, NOT_VALID_MSG, IDLE_TIMEOUT_MSG}
\* the payloads of the commands of the runs, as written to a device
PayloadTexts == {PAYLOAD_P \o NL}
\* every text of the sequence is one of the set
AllIn(seq, S) == \A i \in DOMAIN seq : seq[i] \in S

\* C31: whatever a handler writes to a device is a command payload, a line
\* of the identification handshake, the rejection line or the idle-timeout
\* line; a drop writes nothing of the server's own.
C31_ServerWrites ==
    \A id \in DevIds : AllIn(devRecv[id], ServerTexts \cup PayloadTexts)

\* C31 as the code has it: a handler writes to a device nothing, or the
\* handshake (the data handler, on identification), or the rejection line
\* (the validation timer) or the line "Connection dropped by admin." (a
\* drop), each of the last two followed by the destruction of the socket in
\* the same handler, or command payloads (a command line).
C31_ServerWritesWithDrop ==
    \A id \in DevIds :
       \/ devRecv[id] = <<>>
       \/ devRecv[id] = Handshake /\ last.op = "data" /\ last.who = id
       \/ /\ devRecv[id] = <<NOT_VALID_MSG>>
          /\ last.op = "validationTimeout" /\ last.who = id
          /\ socket[id] = "destroyed"
       \/ /\ devRecv[id] = <<DROP_MSG>>
          /\ last.op \in {"line", "cli"}
          /\ Dispatched[last.arg].kind = "DROP"
          /\ socket[id] = "destroyed"
       \/ /\ AllIn(devRecv[id], PayloadTexts)
          /\ last.op \in {"line", "cli"}
          /\ Dispatched[last.arg].kind \in {"CMD_ID", "CMD_MAC", "CMDALL"}

\* C31 witness: a drop typed at the console wrote its line to the open
\* connection of an identified session and destroyed the socket
C31_Witness ==
    /\ last.op = "cli"
    /\ last.arg = LN_DROP_1001
    /\ session[1001].mac = MAC1
    /\ devRecv[1001] = <<DROP_MSG>>
    /\ devRecv[1002] = <<>>
    /\ socket[1001] = "destroyed"

\* the session a cmd line with one target resolves to, 0 when there is none
TargetOf(line) ==
    IF line = LN_CMD_1001 THEN findSessionById(1001)
    ELSE IF line = LN_CMD_MAC1 THEN findSessionByMac(MAC1)
    ELSE 0
\* the not-writable event of a cmd line with one target
NotWritableOf(line) ==
    IF line = LN_CMD_MAC1
    THEN [tag |-> "CMD_ERROR", what |-> "mac not writable", mac |-> MAC1]
    ELSE [tag |-> "CMD_ERROR", what |-> "id not writable", id |-> 1001]

\* C32: a cmd, by id or by MAC, whose target is in the registry with a
\* socket that is not writable broadcasts the not-writable error, no [CMD]
\* event, and writes nothing to any device; in a list the same holds for the
\* element concerned.
C32_NotWritable ==
    [][/\ \A line \in {LN_CMD_1001, LN_CMD_MAC1} :
             (Typed(line) /\ TargetOf(line) # 0 /\ ~Writable(socket[TargetOf(line)])) =>
                /\ Outcome = <<NotWritableOf(line)>>
                /\ devRecv' = NoWrites
       /\ (Typed(LN_CMD_LIST_12) /\ TargetOf(LN_CMD_MAC1) # 0
              /\ ~Writable(socket[TargetOf(LN_CMD_MAC1)])) =>
             /\ Len(Outcome) = 2
             /\ Outcome[1] = NotWritableOf(LN_CMD_MAC1)
             /\ devRecv'[TargetOf(LN_CMD_MAC1)] = <<>>]_vars

\* C32 witness: the peer of session 1001 ended the connection, the close
\* event is still to come, and an admin typed cmd 1001 P
C32_Witness ==
    /\ last.op = "line"
    /\ last.arg = LN_CMD_1001
    /\ socket[1001] = "ended"
    /\ InRegistry(1001)
    /\ console = <<[tag |-> "ADMIN_CMD", line |-> LN_CMD_1001], NotWritableOf(LN_CMD_1001)>>
    /\ devRecv = NoWrites

\* the same by MAC, after a drop
C32_ByMacAfterDrop ==
    /\ last.op = "line"
    /\ last.arg = LN_CMD_MAC1
    /\ socket[1001] = "destroyed"
    /\ session[1001].mac = MAC1
    /\ InRegistry(1001)
    /\ console = <<[tag |-> "ADMIN_CMD", line |-> LN_CMD_MAC1], NotWritableOf(LN_CMD_MAC1)>>
    /\ devRecv = NoWrites

\* the registered sessions whose mac is mac
WithMac(mac) == {id \in DevIds : InRegistry(id) /\ session[id].mac = mac}
\* the one of them that was created first: ids grow with every accept
OldestWithMac(mac) == CHOOSE id \in WithMac(mac) : \A other \in WithMac(mac) : id <= other

\* C33: cmd <mac> P with sessions of that mac in the registry concerns the
\* oldest of them only: when its socket is writable it gets the payload once,
\* otherwise the not-writable error is broadcast; no other session gets
\* anything.
C33_FirstMatchOnly ==
    [][(Typed(LN_CMD_MAC1) /\ WithMac(MAC1) # {}) =>
          LET first == OldestWithMac(MAC1)
          IN /\ \A id \in DevIds \ {first} : devRecv'[id] = <<>>
             /\ IF Writable(socket[first])
                THEN /\ devRecv'[first] = <<PAYLOAD_P \o NL>>
                     /\ Outcome = <<[tag |-> "CMD", cmd |-> PAYLOAD_P]>>
                ELSE /\ devRecv'[first] = <<>>
                     /\ Outcome = <<NotWritableOf(LN_CMD_MAC1)>>]_vars

\* C33 witness: two sessions have the same mac, the older one was dropped
\* and is still registered, the younger one is open: cmd <mac> P reports
\* not-writable and the younger one gets nothing
C33_Witness ==
    /\ last.op = "line"
    /\ last.arg = LN_CMD_MAC1
    /\ sessions = <<1001, 1002>>
    /\ session[1001].mac = MAC1
    /\ session[1002].mac = MAC1
    /\ socket[1001] = "destroyed"
    /\ socket[1002] = "open"
    /\ Tail(console) = <<NotWritableOf(LN_CMD_MAC1)>>
    /\ devRecv = NoWrites

\* a text without its colons
NoColons(text) == SelectSeq(text, LAMBDA c : c # ":")

\* C34: for every session, token is "NA" exactly when mac is "NA", and
\* otherwise it is mac without its colons; mac and token change only
\* together, in a data handler of that session that finds it unidentified.
C34_TokenOfMac ==
    /\ [](\A id \in Assigned :
             /\ (session[id].token = NA) <=> (session[id].mac = NA)
             /\ session[id].mac # NA => session[id].token = NoColons(session[id].mac))
    /\ [][\A id \in Assigned :
             (session'[id].mac # session[id].mac \/ session'[id].token # session[id].token) =>
                /\ session'[id].mac # session[id].mac
                /\ session'[id].token # session[id].token
                /\ session[id].mac = NA
                /\ Ran("data", id)]_vars

\* C34 witness: one session took its mac from a WIFI_MAC= line with colons,
\* the other one is still unidentified
C34_Witness ==
    /\ session[1001].mac = MAC3
    /\ session[1001].token = <<"1","1","2","2","3","3","4","4","5","5","6","6">>
    /\ session[1002].mac = NA
    /\ session[1002].token = NA

\* the connection of session id was force-closed and its close event has not
\* been handled yet
InWindow(id) == InRegistry(id) /\ socket[id] = "destroyed"

\* C35: a session whose connection was force-closed stays in the registry
\* with status connect until its close event; until then ls lists it, cmdall
\* passes it over without an event or a write, and another drop of its id
\* broadcasts [DROP] again without any other effect; the close handler runs at
\* most once for it.
C35_CloseWindow ==
    /\ [](\A id \in DevIds :
             /\ InWindow(id) => session[id].status = "connect" /\ cleanups[id] = 0
             /\ cleanups[id] <= 1)
    /\ [][\A id \in DevIds :
             InWindow(id) =>
                /\ Typed(LN_LS) => \E i \in DOMAIN Outcome :
                                      Outcome[i].tag = "SESS" /\ Outcome[i].id = id
                /\ Typed(LN_CMDALL_P) =>
                      /\ devRecv'[id] = <<>>
                      /\ \A i \in DOMAIN Outcome : Outcome[i].id # id
                /\ (Typed(LN_DROP_1001) /\ id = 1001) =>
                      /\ Outcome = <<[tag |-> "DROP", id |-> 1001]>>
                      /\ devRecv' = NoWrites
                      /\ UNCHANGED <<sessions, session, socket, timer, cleanups>>]_vars

\* C35 witness: session 1001 was force-closed and an admin typed drop 1001
\* again before the close event: [DROP] is broadcast, nothing is written
C35_Witness ==
    /\ last.op = "line"
    /\ last.arg = LN_DROP_1001
    /\ InWindow(1001)
    /\ session[1001].status = "connect"
    /\ cleanups[1001] = 0
    /\ devRecv[1001] = <<>>
    /\ Tail(console) = <<[tag |-> "DROP", id |-> 1001]>>

\* after the validation timer force-closed session 1001, an ls lists it
C35_LsInWindow ==
    /\ last.op = "line"
    /\ last.arg = LN_LS
    /\ InWindow(1001)
    /\ notValid[1001] = 1
    /\ \E i \in DOMAIN console : console[i].tag = "SESS" /\ console[i].id = 1001

\* the close handler of a session that was dropped has run, once
C35_ClosedOnce ==
    /\ last.op = "close"
    /\ last.who = 1001
    /\ session[1001].mac = MAC1
    /\ session[1001].status = "close"
    /\ cleanups[1001] = 1
    /\ ~InRegistry(1001)

\* the keys of state.sessions
Keys == {sessions[i] : i \in DOMAIN sessions}

\* C36: a command line, whichever command it is, leaves the registry, the id
\* counter, the admin set and every session record as they were; a key enters
\* the registry only in the accept of its connection and leaves it only in
\* the close handler of that connection.
C36_CommandFrame ==
    /\ [][last'.op \in {"line", "cli"} =>
             UNCHANGED <<sessions, sessionIdCounter, admins, session>>]_vars
    /\ [][\A id \in DevIds :
             /\ (id \in Keys' /\ id \notin Keys) => Ran("handleRemoteConnection", id)
             /\ (id \in Keys /\ id \notin Keys') => Ran("close", id)]_vars

\* C36 witness: a drop of the identified session 1001 destroyed its socket
\* and left it in the registry, with its record as before
C36_Witness ==
    /\ last.op = "line"
    /\ last.arg = LN_DROP_1001
    /\ devRecv[1001] = <<DROP_MSG>>
    /\ socket[1001] = "destroyed"
    /\ sessions = <<1001, 1002>>
    /\ session[1001].status = "connect"
    /\ session[1001].mac = MAC1
    /\ sessionIdCounter = 1002
    /\ admins = {1}

VAL_BLE_MAC == <<"F","6","4","5","2","1","C","A","A","3","9","6">>
\* what each telemetry line of the runs that carries a MAC carries
MacInChunk(chunk) == IF chunk = CH_BLE THEN VAL_BLE_MAC ELSE MAC3
FieldOfChunk(chunk) == IF chunk = CH_BLE THEN "bleMac" ELSE "wifiMac"

\* C37: a BLE_MAC= or WIFI_MAC= line whose value is a MAC, arriving on a
\* session that is not identified, identifies it: mac is the MAC in the line,
\* token is that MAC without colons, [MAC] is broadcast, the handshake is
\* written, the validation timer is cancelled, and the telemetry field of the
\* line is set as well.
C37_MacAnywhere ==
    [][\A id \in DevIds : \A chunk \in {CH_BLE, CH_WIFI} :
          (Ran("data", id) /\ last'.arg = chunk /\ session[id].mac = NA) =>
             /\ session'[id].mac = MacInChunk(chunk)
             /\ session'[id].token = NoColons(MacInChunk(chunk))
             /\ session'[id][FieldOfChunk(chunk)] = MacInChunk(chunk)
             /\ devRecv'[id] = Handshake
             /\ timer[id] = "armed" => timer'[id] = "cleared"
             /\ Len(console') = 2
             /\ console'[2].tag = "MAC" /\ console'[2].mac = MacInChunk(chunk)]_vars

\* C37 witness: the first line of session 1001 was BLE_MAC=F64521CAA396
C37_Witness ==
    /\ last.op = "data"
    /\ last.who = 1001
    /\ last.arg = CH_BLE
    /\ session[1001].mac = VAL_BLE_MAC
    /\ session[1001].token = VAL_BLE_MAC
    /\ session[1001].bleMac = VAL_BLE_MAC
    /\ session[1001].wifiMac = UNDEFINED
    /\ timer[1001] = "cleared"
    /\ devRecv[1001] = Handshake

\* C38: the close handler of an admin connection takes the admin out of the
\* set and broadcasts one [ADMIN CLOSE] line: the admin that closes gets
\* nothing, every other admin that is registered and writable gets that line
\* and nothing else, and the remaining ones get nothing.
C38_CloseLine ==
    [][\A a \in AdminIds :
          Ran("adminClose", a) =>
             /\ a \notin admins'
             /\ console' = <<[tag |-> "ADMIN_CLOSE", admin |-> a]>>
             /\ adminRecv'[a] = <<>>
             /\ \A b \in AdminIds \ {a} :
                   adminRecv'[b] = IF b \in admins /\ Writable(asocket[b])
                                   THEN <<[tag |-> "ADMIN_CLOSE", admin |-> a]>>
                                   ELSE <<>>]_vars

\* C38 witness: admin 2 closed while admin 1 was connected: admin 1 got the
\* line, admin 2 did not
C38_Witness ==
    /\ last.op = "adminClose"
    /\ last.who = 2
    /\ admins = {1}
    /\ asocket[1] = "open"
    /\ adminRecv[1] = <<[tag |-> "ADMIN_CLOSE", admin |-> 2]>>
    /\ adminRecv[2] = <<>>

\* the lines of the runs that a cmd grammar accepts
CmdListLines == {line \in AdminLines : Dispatched[line].kind \in {"CMD_ID", "CMD_MAC"}}
\* the session each element of the target list of such a line resolves to,
\* 0 for an element that is no id or that no session has
ElemTargets(line) ==
    LET c == Dispatched[line]
    IN IF c.kind = "CMD_ID"
       THEN [k \in DOMAIN c.ids |->
                IF c.ids[k].id = NaN THEN 0 ELSE findSessionById(c.ids[k].id)]
       ELSE [k \in DOMAIN c.macs |-> findSessionByMac(c.macs[k])]
\* the error events of a cmd
CmdErrors ==
    {"id not found", "mac not found", "id not writable", "mac not writable", "invalid id format"}

\* C39: a cmd line that a grammar accepts broadcasts one outcome for each
\* element of its target list, in order: [CMD], or one of the errors
\* not-found, not-writable and invalid-id-format; the element's session is
\* written the payload exactly when the outcome is [CMD], so every device
\* gets the payload as often as elements with outcome [CMD] resolve to it.
C39_OneOutcomeEach ==
    [][\A line \in CmdListLines :
          Typed(line) =>
             LET el == ElemTargets(line)
             IN /\ DOMAIN Outcome = DOMAIN el
                /\ \A k \in DOMAIN el :
                      /\ Outcome[k].tag \in {"CMD", "CMD_ERROR"}
                      /\ Outcome[k].tag = "CMD_ERROR" => Outcome[k].what \in CmdErrors
                      /\ (Outcome[k].tag = "CMD") <=> (el[k] # 0 /\ Writable(socket[el[k]]))
                /\ \A id \in DevIds :
                      /\ Len(devRecv'[id]) =
                            Cardinality({k \in DOMAIN el : Outcome[k].tag = "CMD" /\ el[k] = id})
                      /\ AllIn(devRecv'[id], PayloadTexts)]_vars

\* C39 witness: cmd 1001,,1002 P with session 1001 dropped and not yet
\* closed and session 1002 open: not writable, invalid id format, [CMD], and
\* one write, to 1002
C39_Witness ==
    /\ last.op = "line"
    /\ last.arg = LN_CMD_EMPTY_EL
    /\ socket[1001] = "destroyed"
    /\ socket[1002] = "open"
    /\ Len(console) = 4
    /\ console[2].tag = "CMD_ERROR" /\ console[2].what = "id not writable"
    /\ console[3].tag = "CMD_ERROR" /\ console[3].what = "invalid id format"
    /\ console[4].tag = "CMD"
    /\ devRecv = [NoWrites EXCEPT ![1002] = <<PAYLOAD_P \o NL>>]

====
